---- MODULE Spec2Model ----
(***************************************************************************)
(* Multi-agent analysis pipeline: BaseAgent (execute / emit_activity /     *)
(* reset), the four analysis stages, AgentOrchestrator (analyze,           *)
(* run_single_agent, reset) and the Celery task analyze_dataset.           *)
(***************************************************************************)
EXTENDS Integers, Sequences, FiniteSets, TLC

\* ------------------------------------------------------------------ bounds
\* longest agents_to_run list that is enumerated
MaxReqLen == 2
\* an entry point is called only while the clock reads at most this value
MaxClockAtCall == 6
\* a stage-local error is raised after at most this many analyze emissions
MaxRaiseStep == 1
\* number of stages that may have a callback registered
MaxCallbacks == 1
\* the wall clock of the query agent stops at this reading
MaxNow == 3
\* the largest number of columns of a table
MaxCols == 4
\* the largest number of copies of the smallest value in a series
MaxRepeat == 12
\* the largest number of anomalies, and of patterns, found in a dataset
MaxFound == 4
\* the largest max_size a CacheManager is constructed with
MaxCacheSize == 2
\* the latest reading of time.time() in the life of a CacheManager
MaxTime == 2
\* the largest number of lookups (hits + misses) of a CacheManager
MaxLookups == 2

\* --------------------------------------------------------------- constants
StageOrder == <<"data_profiler", "insight_discovery", "visualization", "recommendation">>

Registered == {StageOrder[i] : i \in 1..Len(StageOrder)}

\* a name that is not a key of self.agents
Unregistered == "query"

\* an element of agents_to_run that cannot be hashed (a list, a dict)
Unhashable == "<unhashable>"

ReqNames == Registered \cup {Unregistered, Unhashable}

Description ==
  [data_profiler     |-> "Data quality and profiling analysis",
   insight_discovery |-> "Pattern and trend discovery",
   visualization     |-> "Chart generation and visualization",
   recommendation    |-> "Actionable recommendations and next steps"]

\* AgentStatus: member name -> .value
StatusValue ==
  [IDLE |-> "idle", RUNNING |-> "running", COMPLETED |-> "completed",
   FAILED |-> "failed", CANCELLED |-> "cancelled"]

\* the emit_activity calls of each stage's analyze, in program order; the
\* last one carries AgentStatus.COMPLETED, the others AgentStatus.RUNNING
AnalyzeActions ==
  [data_profiler |->
     <<"Analyzing data structure", "Analyzing data types",
       "Analyzing missing values", "Calculating statistics",
       "Detecting outliers", "Analyzing distributions",
       "Data profiling completed">>,
   insight_discovery |->
     <<"Starting insight discovery", "Analyzing correlations",
       "Detecting trends", "Detecting anomalies", "Finding patterns",
       "Generating insights", "Insight discovery completed">>,
   visualization |->
     <<"Analyzing data for visualization", "Generating distribution charts",
       "Generating relationship charts", "Generating categorical charts",
       "Generating correlation heatmap",
       "Visualization generation completed">>,
   recommendation |->
     <<"Generating recommendations", "Recommendations generated">>]

\* kinds of value passed as `data`
Frame == "DataFrame"
BadPath == "unreadable path"
Other == "unsupported object"
DataKinds == {Frame, BadPath, Other}

\* column types of a DataFrame: integers, strings that are not dates, strings
\* that are dates, and datetime64 values
ColTypes == {"int64", "text", "datestr", "datetime64"}

\* the DataFrames passed as `data`, by the types of their columns
Frames == {<<"text", "text">>, <<"text", "int64">>, <<"int64", "datestr">>}

\* the DataFrame object of a call: its columns when it was passed and now
NoFrame == [passed |-> <<>>, now |-> <<>>]

FramesOf(d) == IF d = Frame THEN {[passed |-> f, now |-> f] : f \in Frames} ELSE {NoFrame}

\* files handed to the worker task
Files == {"table.csv", "broken.csv", "notes.txt"}

\* exception messages
UnsupportedMsg == "Unsupported data type"
ReadErrorMsg == "No such file or directory"
StageErrorMsg == "stage-local error"
UnhashableMsg == "unhashable type"
KeywordMsg == "analyze() got an unexpected keyword argument 'event_callback'"
FileTypeMsg == "Unsupported file type"
EncodingMsg == "Could not read CSV file with any supported encoding"
NotFoundMsg == "Agent not found"

\* None / a key that is missing from a dict
NoneStr == "None"
AbsentStr == "<absent>"
NoTime == -1
NoDuration == -1
EmptyDict == <<>>
Absent == <<"<absent>">>

NoDetails == [kind |-> "none", num |-> 0, text |-> ""]

EmptyCtx == [k \in {} |-> EmptyDict]
FileCtx == [k \in {"filename"} |-> <<"table.csv">>]
CtxInputs == {EmptyCtx, FileCtx}

\* callbacks that can be registered: one that publishes, one that raises
Callbacks == {"record", "raise"}

\* ---- query agent
\* CACHE_EXPIRY = timedelta(minutes=30), in units of ten minutes
CACHE_EXPIRY == 3

\* questions, as sequences of characters
Questions == {<<"A", "?">>, <<"a", " ", "?">>}

Punctuation == {"?", "!", ".", ","}

LowerOf == [c \in {"A", "a", "b", " ", "?"} |-> IF c = "A" THEN "a" ELSE c]

\* the context argument of answer_question: None, or a dict that may hold a
\* filename, with the combined result it carries
NoneQCtx == [given |-> FALSE, filename |-> AbsentStr, result |-> 0]
EmptyQCtx == [given |-> TRUE, filename |-> AbsentStr, result |-> 0]
QContexts ==
  {NoneQCtx,
   [given |-> TRUE, filename |-> AbsentStr, result |-> 1],
   [given |-> TRUE, filename |-> AbsentStr, result |-> 2],
   [given |-> TRUE, filename |-> "table.csv", result |-> 1]}

\* the context QueryAgent.analyze is given
StoredContexts == {[given |-> TRUE, filename |-> AbsentStr, result |-> 1]}

\* the attribute analysis_context has not been set
Unset == [given |-> FALSE, filename |-> "<unset>", result |-> 0]

\* what the LLM backend does when it is called
Backends == {"up", "down", "malformed"}

EmptyCache == [k \in {} |-> 0]

\* the text the backend returns, and the value of a call that returned none
LlmText == -1
NoAnswer == [answer |-> <<>>, source |-> "none", timestamp |-> NoTime, from_cache |-> FALSE]

AttributeErrorMsg == "'NoneType' object has no attribute 'get'"
ArityMsg == "_llm_answer() takes 4 positional arguments but 5 were given"

RECURSIVE SeqsUpTo(_, _)
SeqsUpTo(S, n) ==
  IF n = 0 THEN {<<>>}
  ELSE LET shorter == SeqsUpTo(S, n - 1)
       IN shorter \cup {Append(q, x) : q \in {r \in shorter : Len(r) = n - 1}, x \in S}

ReqLists == SeqsUpTo(ReqNames, MaxReqLen)

Range(q) == {q[i] : i \in 1..Len(q)}

\* ------------------------------------------------------------------- state
VARIABLES
  agents,       \* self.agents: name -> BaseAgent fields
  ostatus,      \* AgentOrchestrator.status
  oactivities,  \* AgentOrchestrator.activities
  oresults,     \* AgentOrchestrator.results
  clock,        \* datetime.utcnow()
  pc,           \* position of the call: idle / dispatch / analyze / returned
  op,           \* entry point of the call in flight (or of the last call)
  data,         \* argument `data`
  context,      \* the context dict of the call
  req,          \* argument agents_to_run
  selected,     \* local `agents` of analyze (its key set)
  results,      \* local `results` of analyze, in insertion order
  phase,        \* which of the four phases of analyze is next
  cur,          \* the stage whose execute is in flight (or ran last)
  step,         \* number of emit_activity calls analyze has made
  ostart,       \* local start_time of analyze
  ret,          \* what the last call returned or raised
  araised,      \* what the last analyze of a stage raised ("" if it returned)
  fresh,        \* the call began on a new or just-reset orchestrator
  delivered,    \* activities handed to a publishing callback in this call
  df,           \* the DataFrame object passed as `data`: its columns
  client,       \* QueryAgent.client is set (an LLM backend is configured)
  response_cache,   \* QueryAgent.response_cache: key -> response, timestamp
  analysis_context, \* QueryAgent.analysis_context, when it has been stored
  qnow,         \* datetime.now(), in units of ten minutes
  qret,         \* what the last answer_question call returned or raised
  table,        \* the rows and columns of the DataFrame a run works on
  wanted,       \* local `agents` of that run (its key set)
  dphase,       \* which phase of that run is next (0: no run yet)
  dcontext,     \* the context dict of that run: what the stages stored in it
  dresults,     \* local `results` of that run: stage -> what execute returned
  series,       \* the Series detect_outliers was called with
  methods,      \* its argument `methods`
  outlier_result, \* the dict it returned
  found,        \* local `results` of InsightDiscoveryAgent.analyze
  insights,     \* results["insights"]
  cache_manager, \* a CacheManager: cache, max_size, ttl, hits, misses
  time_now,     \* what time.time() returns
  cache_ret     \* what the last call of a CacheManager method returned

\* the state of the pipeline
pvars == <<agents, ostatus, oactivities, oresults, clock, pc, op, data, context,
           req, selected, results, phase, cur, step, ostart, ret, araised,
           fresh, delivered, df>>

\* the state of the query agent
qvars == <<client, response_cache, analysis_context, qnow, qret>>

\* the state of a run followed through the values of its dataset
dvars == <<table, wanted, dphase, dcontext, dresults>>

\* the state of the calls of the statistical primitives
ovars == <<series, methods, outlier_result>>
ivars == <<found, insights>>
cvars == <<cache_manager, time_now, cache_ret>>
uvars == <<ovars, ivars, cvars>>

\* the state the pipeline's operations leave alone
other_vars == <<qvars, dvars, uvars>>

vars == <<pvars, qvars, dvars, uvars>>

\* ------------------------------------------------------------ base_agent.py
AgentActivity(name, action, status, details, t) ==
  [agent_name |-> name, action |-> action, status |-> status,
   details |-> details, timestamp |-> t]

IsoFormat(t) == [iso |-> t]

to_dict(act) ==
  [agent_name |-> act.agent_name, action |-> act.action,
   status |-> StatusValue[act.status], details |-> act.details,
   timestamp |-> IsoFormat(act.timestamp)]

NewAgent ==
  [status |-> "IDLE", activities |-> <<>>, results |-> EmptyDict,
   error |-> NoneStr, start_time |-> NoTime, end_time |-> NoTime,
   on_activity |-> "none"]

\* a variant that appends only after the callback has returned
emit_activity_after_callback(a, name, action, status, details, t) ==
  IF a.on_activity = "raise" THEN a
  ELSE [a EXCEPT !.activities = Append(@, AgentActivity(name, action, status, details, t))]

\* emit_activity, the stage's side: the activity is appended to the log
emit_activity(a, name, action, status, details, t) ==
  [a EXCEPT !.activities = Append(@, AgentActivity(name, action, status, details, t))]

\* emit_activity, the subscriber's side: a registered callback is called with
\* the activity; an exception it raises is caught and logged
on_activity_call(a, dl) ==
  IF a.on_activity = "record" THEN Append(dl, a.activities[Len(a.activities)])
  ELSE dl

get_duration(a, now) ==
  IF a.start_time = NoTime THEN NoDuration
  ELSE (IF a.end_time # NoTime THEN a.end_time ELSE now) - a.start_time

get_activities(a) == [i \in 1..Len(a.activities) |-> to_dict(a.activities[i])]

\* a variant that leaves the stage cancelled instead of idle
agent_reset_cancelled(a) ==
  [a EXCEPT !.status = "CANCELLED", !.activities = <<>>, !.results = EmptyDict,
            !.error = NoneStr, !.start_time = NoTime, !.end_time = NoTime]

agent_reset(a) ==
  [a EXCEPT !.status = "IDLE", !.activities = <<>>, !.results = EmptyDict,
            !.error = NoneStr, !.start_time = NoTime, !.end_time = NoTime]

\* a variant that does not announce the start
execute_begin_silent(a, name, t) ==
  [a EXCEPT !.status = "RUNNING", !.start_time = t, !.error = NoneStr]

\* execute, up to the call of analyze
execute_begin(a, name, t) ==
  emit_activity([a EXCEPT !.status = "RUNNING", !.start_time = t, !.error = NoneStr],
                name, <<"Starting", Description[name]>>, "RUNNING", NoDetails, t + 1)

\* a variant that stores the results without leaving the running status
execute_completed_still_running(a, name, res, t) ==
  LET a1 == [a EXCEPT !.results = res, !.end_time = t]
  IN emit_activity(a1, name, <<"Completed", Description[name]>>, "COMPLETED",
                   [kind |-> "duration_seconds", num |-> get_duration(a1, t + 1), text |-> ""],
                   t + 1)

\* execute, after analyze returned res
execute_completed(a, name, res, t) ==
  LET a1 == [a EXCEPT !.results = res, !.status = "COMPLETED", !.end_time = t]
  IN emit_activity(a1, name, <<"Completed", Description[name]>>, "COMPLETED",
                   [kind |-> "duration_seconds", num |-> get_duration(a1, t + 1), text |-> ""],
                   t + 1)

\* a variant that does not capture the message
execute_failed_no_error(a, name, msg, t) ==
  LET a1 == [a EXCEPT !.status = "FAILED", !.end_time = t]
  IN emit_activity(a1, name, <<"Failed", msg>>, "FAILED",
                   [kind |-> "error", num |-> 0, text |-> msg], t + 1)

\* execute, after analyze raised msg
execute_failed(a, name, msg, t) ==
  LET a1 == [a EXCEPT !.status = "FAILED", !.error = msg, !.end_time = t]
  IN emit_activity(a1, name, <<"Failed", msg>>, "FAILED",
                   [kind |-> "error", num |-> 0, text |-> msg], t + 1)

\* the dict execute returns on success
completed_outcome(a, name, res) ==
  [agent |-> name, status |-> StatusValue[a.status], results |-> res,
   error |-> AbsentStr, duration |-> get_duration(a, NoTime),
   timestamp |-> IsoFormat(a.end_time)]

\* the dict execute returns from its except branch
failed_outcome(a, name) ==
  [agent |-> name, status |-> StatusValue[a.status], results |-> Absent,
   error |-> a.error, duration |-> get_duration(a, NoTime),
   timestamp |-> IsoFormat(a.end_time)]

\* dict.get("results", {})
GetResults(o) == IF o.results = Absent THEN EmptyDict ELSE o.results

\* dict.get(key, {}) on the context
CtxGet(ctx, k) == IF k \in DOMAIN ctx THEN ctx[k] ELSE EmptyDict


\* ------------------------------------------------------------ the stages
\* the isinstance chain that opens every analyze: the message it raises, or
\* "" when data is (or loads as) a DataFrame
convert_error(d) ==
  IF d = Frame THEN ""
  ELSE IF d = BadPath THEN ReadErrorMsg
  ELSE UnsupportedMsg

\* what analyze returns: the results block of the stage, which for the
\* visualization and recommendation stages depends on the context keys read
analyze_results(s, d, ctx) ==
  LET p == IF CtxGet(ctx, "profiler_results") = EmptyDict THEN "no profile" ELSE "profile"
      i == IF CtxGet(ctx, "insights") = EmptyDict THEN "no insights" ELSE "insights"
  IN CASE s = "data_profiler" -> <<"profile", d>>
       [] s = "insight_discovery" -> <<"insights", d>>
       [] s = "visualization" -> <<"charts", d, p>>
       [] OTHER -> <<"recommendations", d, p, i>>

NumEmits(s) == Len(AnalyzeActions[s])

\* pd.to_datetime(df[col]) returns for numbers, date strings and datetimes
\* and raises for other strings
to_datetime_ok(t) == t \in {"int64", "datestr", "datetime64"}

\* VisualizationAgent._generate_viz_recommendations, its effect on df: the
\* first column that pd.to_datetime accepts is assigned its conversion
_generate_viz_recommendations(cols) ==
  LET ok == {i \in 1..Len(cols) : to_datetime_ok(cols[i])}
  IN IF ok = {} THEN cols
     ELSE LET first == CHOOSE i \in ok : \A j \in ok : i <= j
          IN [cols EXCEPT ![first] = "datetime64"]

\* the columns of the caller's DataFrame after analyze of stage s returned:
\* every stage binds df to the object it was given
df_after(s, cols) ==
  IF s = "visualization" THEN _generate_viz_recommendations(cols) ELSE cols

\* ------------------------------------------------------------ query_agent.py
\* the subsequence of q at the indices in idx, in order
RECURSIVE PickFrom(_, _, _)
PickFrom(q, idx, i) ==
  IF i > Len(q) THEN <<>>
  ELSE (IF i \in idx THEN <<q[i]>> ELSE <<>>) \o PickFrom(q, idx, i + 1)

\* ' '.join(question.split())
split_join(q) ==
  PickFrom(q, {i \in 1..Len(q) :
                 \/ q[i] # " "
                 \/ /\ i > 1
                    /\ q[i - 1] # " "
                    /\ \E j \in (i + 1)..Len(q) : q[j] # " "}, 1)

\* str.rstrip(chars)
rstrip(q, chars) ==
  LET keep == {i \in 1..Len(q) : q[i] \notin chars}
  IN IF keep = {} THEN <<>>
     ELSE SubSeq(q, 1, CHOOSE i \in keep : \A j \in keep : j <= i)

\* str.strip()
strip(q) ==
  LET keep == {i \in 1..Len(q) : q[i] # " "}
  IN IF keep = {} THEN <<>>
     ELSE SubSeq(q, CHOOSE i \in keep : \A j \in keep : i <= j,
                    CHOOSE i \in keep : \A j \in keep : j <= i)

lower(q) == [i \in 1..Len(q) |-> LowerOf[q[i]]]

_normalize_question(q) == strip(lower(rstrip(split_join(q), Punctuation)))

\* json.dumps(context.get('filename', '')) and its hash, which is taken to
\* tell different strings apart
context_hash(ctx) ==
  <<"hash", IF ctx.filename = AbsentStr THEN "" ELSE ctx.filename>>

_get_cache_key(nq, ctx) == <<nq, context_hash(ctx)>>

\* a variant that also accepts an entry whose age equals the expiry
is_unexpired_inclusive(t, ts) == t - ts <= CACHE_EXPIRY

\* datetime.now() - cached_data['timestamp'] < CACHE_EXPIRY
is_unexpired(t, ts) == t - ts < CACHE_EXPIRY

\* _get_cached_response: the response it returns, if it returns one
cache_hit(cache, key, t) ==
  key \in DOMAIN cache /\ is_unexpired(t, cache[key].timestamp)

\* _get_cached_response, its effect on the cache: an expired entry is deleted
cache_after_read(cache, key, t) ==
  IF key \in DOMAIN cache /\ ~is_unexpired(t, cache[key].timestamp)
  THEN [k \in DOMAIN cache \ {key} |-> cache[k]]
  ELSE cache

_cache_response(cache, key, response, t) ==
  [k \in DOMAIN cache \cup {key} |->
     IF k = key THEN [response |-> response, timestamp |-> t] ELSE cache[k]]

\* _enhanced_fallback_answer: the rule-based answer, read from the context
_enhanced_fallback_answer(nq, ctx, t) ==
  [answer |-> <<nq, ctx.result>>, source |-> "enhanced_rule_based",
   timestamp |-> t, from_cache |-> FALSE]

\* _fallback_answer: the rule-based answer of the except branch of _llm_answer
_fallback_answer(nq, ctx, t) ==
  [answer |-> <<nq, ctx.result>>, source |-> "rule_based",
   timestamp |-> t, from_cache |-> FALSE]

\* _llm_answer(question, data_summary, context): the backend's answer, or
\* the rule-based one when the backend call raises
_llm_answer(nq, ctx, b, t) ==
  IF b = "up"
  THEN [answer |-> <<nq, LlmText>>, source |-> "llm", timestamp |-> t,
        from_cache |-> FALSE]
  ELSE _fallback_answer(nq, ctx, t)

\* the parameters _llm_answer declares after self, and the arguments
\* answer_question passes to it
LlmAnswerParams == <<"question", "data_summary", "context">>
LlmAnswerArgs == <<"normalized_question", "data_summary", "context", "intent">>

\* the call binds its arguments only if there are as many as parameters
llm_call_binds == Len(LlmAnswerArgs) = Len(LlmAnswerParams)


\* ---------------------------------------------------------- orchestrator.py
\* a variant that puts the stage's log in front
_collect_activities_front(acts, a) == a.activities \o acts

_collect_activities(acts, a) == acts \o a.activities

get_all_activities(acts) == [i \in 1..Len(acts) |-> to_dict(acts[i])]

\* the context after the orchestrator has stored the outcome o of stage s
context_after(ctx, s, o) ==
  IF s = "data_profiler"
  THEN [k \in DOMAIN ctx \cup {"profiler_results"} |->
          IF k = "profiler_results" THEN GetResults(o) ELSE ctx[k]]
  ELSE IF s = "insight_discovery"
  THEN [k \in DOMAIN ctx \cup {"insights"} |->
          IF k = "insights" THEN GetResults(o) ELSE ctx[k]]
  ELSE ctx

CountStatus(rs, st) == Cardinality({i \in 1..Len(rs) : rs[i].status = st})

\* a variant that compares the status string with the enum member's name
_create_summary_enum(rs, acts) ==
  [total_agents |-> Len(rs),
   successful_agents |-> CountStatus(rs, "COMPLETED"),
   failed_agents |-> CountStatus(rs, "FAILED"),
   total_activities |-> Len(acts)]

_create_summary(rs, acts) ==
  [total_agents |-> Len(rs),
   successful_agents |-> CountStatus(rs, "completed"),
   failed_agents |-> CountStatus(rs, "failed"),
   total_activities |-> Len(acts)]

AgentsRun(rs) == [i \in 1..Len(rs) |-> rs[i].agent]

\* a variant that runs the visualization phase before insight discovery
PhaseStageSwapped(k) ==
  <<"data_profiler", "visualization", "insight_discovery", "recommendation">>[k]

\* the stage the k-th phase of analyze runs
PhaseStage(k) == StageOrder[k]

\* a variant that gives up the remaining phases once a stage has failed
next_phase_abort(k, o) == IF o.status = "failed" THEN Len(StageOrder) + 1 ELSE k + 1

\* the phase that follows phase k, whose stage returned the outcome o
next_phase(k, o) == k + 1

\* the dict comprehension over agents_to_run: the selected names
select_agents(r) ==
  IF r.given /\ r.names # <<>> THEN Range(r.names) \cap Registered ELSE Registered

\* `name in self.agents` raises TypeError for an unhashable name
select_raises(r) == r.given /\ r.names # <<>> /\ Unhashable \in Range(r.names)

\* ------------------------------------- the stages, on the values of a table
\* A table is its number of rows and, per column, whether its dtype is
\* numeric (else object) and how many of its entries are missing.  A table
\* read from a file has at least one column.  It stands for the DataFrame
\* whose missing entries are the first ones of their column and whose other
\* entries are the row index (numeric columns) or pairwise different strings
\* of one length (object columns).
RowCounts == {0, 5, 100}

\* none of the n entries missing, 40% of them, all of them
MissingCounts(n) == {0, (2 * n) \div 5, n}

Columns(n) == [numeric : BOOLEAN, missing : MissingCounts(n)]

Tables ==
  UNION {[rows : {n}, cols : SeqsUpTo(Columns(n), MaxCols) \ {<<>>}] : n \in RowCounts}

NoTable == [rows |-> 0, cols |-> <<>>]

\* the requests of these runs: agents_to_run=None, and a list without the profiler
DataRequests ==
  {[given |-> FALSE, names |-> <<>>],
   [given |-> TRUE, names |-> <<"insight_discovery", "recommendation">>]}

\* a key that is missing from a dict / the dict {} / a dict with its keys
AbsentKey == [kind |-> "absent"]
EmptyResults == [kind |-> "empty"]

NoDataCtx == [profiler_results |-> AbsentKey, insights |-> AbsentKey]
NotRun == [status |-> "not_run", results |-> AbsentKey, error |-> AbsentStr]
NoResults == [s \in Registered |-> NotRun]

\* str(ZeroDivisionError) of int / int
ZeroDivisionMsg == "division by zero"

RECURSIVE SumMissing(_, _)
\* df.isnull().sum().sum(), over the first k columns
SumMissing(t, k) == IF k = 0 THEN 0 ELSE SumMissing(t, k - 1) + t.cols[k].missing

\* df.select_dtypes(include=[np.number]).columns
numeric_cols(t) == {i \in 1..Len(t.cols) : t.cols[i].numeric}

\* df.select_dtypes(include=['object', 'category']).columns
categorical_cols(t) == {i \in 1..Len(t.cols) : ~t.cols[i].numeric}

\* df[col].isnull().all(): true of a column without entries
isnull_all(t, i) == t.cols[i].missing = t.rows

\* len(df[col].dropna())
dropna_len(t, i) == t.rows - t.cols[i].missing

\* a ratio num / den compared with a number of tenths: num / den > tenths / 10
ratio_gt(r, tenths) == r.num * 10 > tenths * r.den

\* DataProfilerAgent._get_overview
_get_overview(t) == [rows |-> t.rows, columns |-> Len(t.cols)]

\* DataProfilerAgent._analyze_data_types divides by len(df) for every column
_analyze_data_types_raises(t) == t.cols # <<>> /\ t.rows = 0

\* the severity of a column with m of n entries missing
missing_severity(m, n) ==
  IF ratio_gt([num |-> m, den |-> n], 3) THEN "high"
  ELSE IF ratio_gt([num |-> m, den |-> n], 1) THEN "medium"
  ELSE "low"

\* DataProfilerAgent._analyze_missing_values divides by len(df) for every column
_analyze_missing_values_raises(t) == t.cols # <<>> /\ t.rows = 0

\* DataProfilerAgent._analyze_missing_values
_analyze_missing_values(t) ==
  LET affected == {i \in 1..Len(t.cols) : t.cols[i].missing > 0}
      total_missing == SumMissing(t, Len(t.cols))
      total_cells == t.rows * Len(t.cols)
  IN [total_missing_cells |-> total_missing,
      total_cells |-> total_cells,
      overall_missing_percentage |-> [num |-> total_missing, den |-> total_cells],
      columns_with_missing |->
        [i \in affected |->
           [count |-> t.cols[i].missing,
            percentage |-> [num |-> t.cols[i].missing, den |-> t.rows],
            severity |-> missing_severity(t.cols[i].missing, t.rows)]],
      columns_affected |-> Cardinality(affected)]

\* DataProfilerAgent._calculate_statistics: the columns it has an entry for
_calculate_statistics(t) == numeric_cols(t)

\* DataProfilerAgent._detect_outliers: the columns it looks for outliers in
\* (which of them hold outliers depends on their values)
_detect_outliers(t) == {i \in numeric_cols(t) : ~isnull_all(t, i)}

\* DataProfilerAgent._analyze_distributions: the columns it has an entry for
_analyze_distributions(t) == {i \in numeric_cols(t) : ~isnull_all(t, i)}

\* the smallest number of missing entries of a column: the rows that are
\* missing in every column
MinMissing(t) ==
  CHOOSE m \in {t.cols[i].missing : i \in 1..Len(t.cols)} :
    \A i \in 1..Len(t.cols) : m <= t.cols[i].missing

\* len(df.drop_duplicates()): the rows that are missing everywhere are equal
drop_duplicates_len(t) ==
  IF MinMissing(t) = 0 THEN t.rows ELSE t.rows - MinMissing(t) + 1

\* EnhancedQualityScoring._calculate_completeness, as a ratio
_calculate_completeness(t) ==
  LET total_cells == t.rows * Len(t.cols)
  IN IF total_cells = 0 THEN [num |-> 100, den |-> 1]
     ELSE [num |-> (total_cells - SumMissing(t, Len(t.cols))) * 100, den |-> total_cells]

\* EnhancedQualityScoring._calculate_consistency: strings of one length
\* have a coefficient of variation of 0
_calculate_consistency(t) == 100

\* EnhancedQualityScoring._calculate_accuracy: no entry is an outlier
_calculate_accuracy(t) == 100

\* EnhancedQualityScoring._calculate_uniqueness, as a ratio
_calculate_uniqueness(t) ==
  IF t.rows = 0 THEN [num |-> 100, den |-> 1]
  ELSE [num |-> drop_duplicates_len(t) * 100, den |-> t.rows]

\* EnhancedQualityScoring.calculate_quality_score: scores['overall'], as a
\* ratio; the weights are 0.4, 0.2, 0.2 and 0.2
calculate_quality_score(t) ==
  LET c == _calculate_completeness(t)
      u == _calculate_uniqueness(t)
  IN [num |-> 4 * c.num * u.den
                + 2 * (_calculate_consistency(t) + _calculate_accuracy(t)) * c.den * u.den
                + 2 * u.num * c.den,
      den |-> 10 * c.den * u.den]

\* DataProfilerAgent.analyze
profiler_analyze(t) ==
  [kind |-> "dict",
   quality_score |-> calculate_quality_score(t),
   overview |-> _get_overview(t),
   missing_values |-> _analyze_missing_values(t),
   statistics |-> _calculate_statistics(t),
   outliers |-> _detect_outliers(t),
   distributions |-> _analyze_distributions(t)]

\* InsightDiscoveryAgent._find_correlations: the pairs of columns it compares
\* (which of them reach the threshold depends on their values)
_find_correlations(t) ==
  IF Cardinality(numeric_cols(t)) < 2 THEN {}
  ELSE {p \in numeric_cols(t) \X numeric_cols(t) :
          p[1] < p[2] /\ ~isnull_all(t, p[1]) /\ ~isnull_all(t, p[2])}

\* InsightDiscoveryAgent._detect_trends: the columns it fits a line to
_detect_trends(t) ==
  {i \in numeric_cols(t) : ~(isnull_all(t, i) \/ dropna_len(t, i) < 3)}

\* InsightDiscoveryAgent._detect_anomalies: the columns it takes z-scores of
_detect_anomalies(t) == {i \in numeric_cols(t) : ~isnull_all(t, i)}

\* the smaller of two numbers
Min(a, b) == IF a < b THEN a ELSE b

\* InsightDiscoveryAgent._generate_insights: how many insights it returns.
\* Columns that hold the row index correlate and show a trend; no row index
\* has a z-score above 3 and no string dominates.
_generate_insights(t) ==
  Min(Cardinality(_find_correlations(t)), 5) + Min(Cardinality(_detect_trends(t)), 3)

\* InsightDiscoveryAgent.analyze
insight_analyze(t) ==
  [kind |-> "dict",
   insights |-> _generate_insights(t),
   correlations |-> _find_correlations(t),
   trends |-> _detect_trends(t),
   anomalies |-> _detect_anomalies(t)]

\* profiler_results.get("missing_values", {}).get("overall_missing_percentage", 0)
overall_missing_of(pr) ==
  IF pr.kind = "dict" THEN pr.missing_values.overall_missing_percentage
  ELSE [num |-> 0, den |-> 1]

\* profiler_results.get("quality_score", 1.0)
quality_score_of(pr) ==
  IF pr.kind = "dict" THEN pr.quality_score ELSE [num |-> 1, den |-> 1]

\* a ratio num / den compared with a number of tenths: num / den < tenths / 10
ratio_lt(r, tenths) == r.num * 10 < tenths * r.den

\* the title that follows from quality_score < 0.7
low_quality_recommendation(pr) ==
  IF ratio_lt(quality_score_of(pr), 7) THEN {"Improve overall data quality"} ELSE {}

\* a variant that also fires when exactly a tenth of the cells is missing
_data_quality_recommendations_from_a_tenth(pr) ==
  LET overall == overall_missing_of(pr)
  IN low_quality_recommendation(pr)
       \cup (IF overall.num * 10 >= overall.den THEN {"Handle missing values"} ELSE {})

\* RecommendationAgent._data_quality_recommendations: the titles that follow
\* from the quality score and from the missing-value report
_data_quality_recommendations(pr) ==
  low_quality_recommendation(pr)
    \cup (IF ratio_gt(overall_missing_of(pr), 1) THEN {"Handle missing values"} ELSE {})

\* RecommendationAgent._analysis_recommendations: the title that follows from
\* the dtypes of the columns
_analysis_recommendations(t) ==
  IF categorical_cols(t) # {} THEN {"Perform segmentation analysis"} ELSE {}

\* RecommendationAgent._next_steps_recommendations: the titles that follow
\* from the quality score and the insights found, from the row count, and
\* the one that is always given
_next_steps_recommendations(pr, ins) ==
  LET num_rows == IF pr.kind = "dict" THEN pr.overview.rows ELSE 0
      insights_found == IF ins.kind = "dict" THEN ins.insights ELSE 0
  IN (IF ratio_gt(quality_score_of(pr), 8) /\ insights_found > 3
      THEN {"Ready for predictive modeling"} ELSE {})
       \cup (IF num_rows < 100 THEN {"Collect more data"} ELSE {})
       \cup {"Export and share results"}

\* RecommendationAgent.analyze: the titles of its recommendations
recommendation_analyze(t, ctx) ==
  LET pr == IF ctx.profiler_results.kind = "absent" THEN EmptyResults
            ELSE ctx.profiler_results
      ins == IF ctx.insights.kind = "absent" THEN EmptyResults ELSE ctx.insights
  IN [kind |-> "dict",
      titles |-> _data_quality_recommendations(pr)
                   \cup _analysis_recommendations(t)
                   \cup _next_steps_recommendations(pr, ins)]

\* the stage's analyze raises on this table
stage_raises(s, t) ==
  s = "data_profiler" /\ (_analyze_data_types_raises(t) \/ _analyze_missing_values_raises(t))

\* what the stage's analyze returns
stage_analyze(s, t, ctx) ==
  IF s = "data_profiler" THEN profiler_analyze(t)
  ELSE IF s = "insight_discovery" THEN insight_analyze(t)
  ELSE IF s = "recommendation" THEN recommendation_analyze(t, ctx)
  ELSE [kind |-> "dict"]

\* BaseAgent.execute: the status, results and error of the dict it returns
stage_execute(s, t, ctx) ==
  IF stage_raises(s, t)
  THEN [status |-> "failed", results |-> AbsentKey, error |-> ZeroDivisionMsg]
  ELSE [status |-> "completed", results |-> stage_analyze(s, t, ctx), error |-> AbsentStr]

\* result.get("results", {})
get_results(o) == IF o.results.kind = "absent" THEN EmptyResults ELSE o.results

\* the context after the orchestrator has stored the outcome o of stage s
data_context_after(ctx, s, o) ==
  IF s = "data_profiler" THEN [ctx EXCEPT !.profiler_results = get_results(o)]
  ELSE IF s = "insight_discovery" THEN [ctx EXCEPT !.insights = get_results(o)]
  ELSE ctx

\* ------------------------------------------------- enhanced_profiling.py
\* A numeric Series is given by how often each of three values occurs in it
\* and by the number of its missing entries; the order of the entries has no
\* part in the result.
SampleValues == <<0, 1, 100>>

SeriesInputs ==
  [counts : {c \in [1..Len(SampleValues) -> 0..MaxRepeat] : c[2] <= 2 /\ c[3] <= 2},
   missing : {0, 1}]

NoSeries == [counts |-> [i \in 1..Len(SampleValues) |-> 0], missing |-> 0]

\* the values the argument `methods` can name; None stands for both
MethodNames == {"iqr", "zscore"}

\* the result dict as detect_outliers initialises it
NoOutliers ==
  [outliers |-> {}, outlier_count |-> 0,
   outlier_percentage |-> [num |-> 0, den |-> 1], severity |-> "none"]

\* len(series.dropna())
non_null_len(sr) == sr.counts[1] + sr.counts[2] + sr.counts[3]

\* series.dropna(), sorted
sorted_values(sr) ==
  [i \in 1..non_null_len(sr) |->
     IF i <= sr.counts[1] THEN SampleValues[1]
     ELSE IF i <= sr.counts[1] + sr.counts[2] THEN SampleValues[2]
     ELSE SampleValues[3]]

\* the values that occur in series.dropna()
present_values(sr) == {SampleValues[i] : i \in {j \in 1..Len(SampleValues) : sr.counts[j] > 0}}

\* how often v occurs
occurrences(sr, v) ==
  LET i == CHOOSE j \in 1..Len(SampleValues) : SampleValues[j] = v IN sr.counts[i]

\* 4 * series.quantile(k / 4), by linear interpolation between order statistics
quantile4(sr, k) ==
  LET xs == sorted_values(sr)
      pos == k * (Len(xs) - 1)
      lo == pos \div 4
      fr == pos % 4
  IN IF fr = 0 THEN 4 * xs[lo + 1]
     ELSE 4 * xs[lo + 1] + fr * (xs[lo + 2] - xs[lo + 1])

\* EnhancedOutlierDetection._iqr_method, factor 1.5: v lies outside the fences
_iqr_method(sr, v) ==
  LET Q1 == quantile4(sr, 1)
      Q3 == quantile4(sr, 3)
      IQR == Q3 - Q1
  IN 8 * v < 2 * Q1 - 3 * IQR \/ 8 * v > 2 * Q3 + 3 * IQR

RECURSIVE SumOver(_, _)
\* the sum of f over the first k entries of a sequence
SumOver(xs, k) == IF k = 0 THEN 0 ELSE SumOver(xs, k - 1) + xs[k]

\* EnhancedOutlierDetection._zscore_method, threshold 3: |v - mean| / std > 3
\* with the sample standard deviation, all false when std is 0
_zscore_method(sr, v) ==
  LET xs == sorted_values(sr)
      n == Len(xs)
      total == SumOver(xs, n)
      sq == [i \in 1..n |-> (n * xs[i] - total) * (n * xs[i] - total)]
  IN (n * v - total) * (n * v - total) * (n - 1) > 9 * SumOver(sq, n)

\* the masks the call computes
outlier_masks(ms) == ms \cap MethodNames

\* the number of masks that flag v: sum(outlier_masks)
votes(sr, ms, v) ==
  Cardinality({m \in outlier_masks(ms) :
                 IF m = "iqr" THEN _iqr_method(sr, v) ELSE _zscore_method(sr, v)})

\* a variant that asks for more than half of the masks
combined_mask_majority(sr, ms, v) == 2 * votes(sr, ms, v) > Cardinality(outlier_masks(ms))

\* combined_mask = sum(outlier_masks) >= (len(outlier_masks) / 2)
combined_mask(sr, ms, v) == 2 * votes(sr, ms, v) >= Cardinality(outlier_masks(ms))

RECURSIVE CountOf(_, _)
\* the number of entries whose value is in S
CountOf(sr, S) ==
  IF S = {} THEN 0
  ELSE LET v == CHOOSE x \in S : TRUE IN occurrences(sr, v) + CountOf(sr, S \ {v})

\* the severity of an outlier percentage num / den (of 100)
outlier_severity(num, den) ==
  IF num > 10 * den THEN "high"
  ELSE IF num > 5 * den THEN "medium"
  ELSE IF num > 0 THEN "low"
  ELSE "none"

\* EnhancedOutlierDetection.detect_outliers
detect_outliers(sr, ms) ==
  IF non_null_len(sr) = 0 \/ outlier_masks(ms) = {} THEN NoOutliers
  ELSE LET flagged == {v \in present_values(sr) : combined_mask(sr, ms, v)}
           cnt == CountOf(sr, flagged)
       IN [outliers |-> flagged, outlier_count |-> cnt,
           outlier_percentage |-> [num |-> cnt * 100, den |-> non_null_len(sr)],
           severity |-> outlier_severity(cnt * 100, non_null_len(sr))]

\* --------------------------------- insight_discovery.py, insight synthesis
\* What the detectors found: the confidences (in hundredths) of the
\* correlations and of the trends, the severities of the anomalies in column
\* order, and the types of the patterns, those of the object columns first.
NothingFound == [correlations |-> <<>>, trends |-> <<>>, anomalies |-> <<>>, patterns |-> <<>>]

\* k copies of x
Copies(x, k) == [i \in 1..k |-> x]

Findings ==
  [correlations : SeqsUpTo({50, 95}, 1),
   trends : SeqsUpTo({40, 99}, 1),
   anomalies : SeqsUpTo({"high", "medium"}, MaxFound),
   patterns : {Copies("dominant_category", d) \o Copies("concentrated_values", c) :
                 d \in 0..MaxFound, c \in 0..MaxFound} ]

\* q[:n]
Take(q, n) == SubSeq(q, 1, IF n < Len(q) THEN n ELSE Len(q))

\* the insights made from the top five correlations
correlation_insights(cs) ==
  [i \in 1..Len(Take(cs, 5)) |-> [type |-> "correlation", of |-> i, confidence |-> cs[i]]]

\* the insights made from the top three trends
trend_insights(ts) ==
  [i \in 1..Len(Take(ts, 3)) |-> [type |-> "trend", of |-> i, confidence |-> ts[i]]]

\* the insights made from results["anomalies"][:3], for those of high severity
anomaly_insights(an) ==
  LET top == [i \in 1..Len(Take(an, 3)) |->
                [type |-> "anomaly", of |-> i, confidence |-> 85, kind |-> an[i]]]
      IsHigh(x) == x.kind = "high"
      kept == SelectSeq(top, IsHigh)
  IN [i \in 1..Len(kept) |->
        [type |-> "anomaly", of |-> kept[i].of, confidence |-> kept[i].confidence]]

\* the insights made from results["patterns"][:3], for the dominant categories
pattern_insights(ps) ==
  LET top == [i \in 1..Len(Take(ps, 3)) |->
                [type |-> "pattern", of |-> i, confidence |-> 90, kind |-> ps[i]]]
      IsDominant(x) == x.kind = "dominant_category"
      kept == SelectSeq(top, IsDominant)
  IN [i \in 1..Len(kept) |->
        [type |-> "pattern", of |-> kept[i].of, confidence |-> kept[i].confidence]]

RECURSIVE sort_by_confidence(_)
\* insights.sort(key=confidence, reverse=True): a stable sort
sort_by_confidence(q) ==
  IF q = <<>> THEN <<>>
  ELSE LET best == CHOOSE i \in 1..Len(q) :
                     /\ \A j \in 1..Len(q) : q[j].confidence <= q[i].confidence
                     /\ \A j \in 1..(i - 1) : q[j].confidence < q[i].confidence
       IN <<q[best]>> \o sort_by_confidence(SubSeq(q, 1, best - 1) \o SubSeq(q, best + 1, Len(q)))

\* InsightDiscoveryAgent._generate_insights(df, results)
_generate_insights_of(r) ==
  sort_by_confidence(correlation_insights(r.correlations) \o trend_insights(r.trends)
                       \o anomaly_insights(r.anomalies) \o pattern_insights(r.patterns))

NoRet == [kind |-> "none"]

CanCall == pc = "idle" /\ clock <= MaxClockAtCall

\* ------------------------------------------------- utils/cache_manager.py
CacheKeys == {"k1", "k2", "k3"}
CacheValues == {"v1", "v2"}
NoneValue == "None"

\* no CacheManager constructed yet
NoCacheManager ==
  [cache |-> <<>>, max_size |-> 0, ttl |-> 0, hits |-> 0, misses |-> 0]

\* CacheManager.__init__
CacheManager_init(m, t) ==
  [cache |-> <<>>, max_size |-> m, ttl |-> t, hits |-> 0, misses |-> 0]

\* the OrderedDict self.cache is the sequence of its entries in order, each
\* [key, value, timestamp]
stored_keys(c) == {c[i].key : i \in 1..Len(c)}

\* self.cache[key]
cache_getitem(c, key) == c[CHOOSE i \in 1..Len(c) : c[i].key = key]

\* del self.cache[key]
cache_delitem(c, key) == SelectSeq(c, LAMBDA e : e.key # key)

\* self.cache[key] = (value, t): a stored key keeps its place, a new key is
\* put at the end
cache_setitem(c, key, value, t) ==
  IF key \in stored_keys(c)
  THEN [i \in 1..Len(c) |->
          IF c[i].key = key
          THEN [key |-> key, value |-> value, timestamp |-> t]
          ELSE c[i]]
  ELSE Append(c, [key |-> key, value |-> value, timestamp |-> t])

\* self.cache.move_to_end(key)
move_to_end(c, key) == Append(cache_delitem(c, key), cache_getitem(c, key))

\* CacheManager.set at time t
set(cm, key, value, t) ==
  LET c1 == IF Len(cm.cache) >= cm.max_size
            THEN cache_delitem(cm.cache, cm.cache[1].key)
            ELSE cm.cache
  IN [cm EXCEPT !.cache = cache_setitem(c1, key, value, t)]

\* CacheManager.get at time t: the manager afterwards and the value returned
get(cm, key, t) ==
  IF key \in stored_keys(cm.cache)
  THEN IF t - cache_getitem(cm.cache, key).timestamp < cm.ttl
       THEN [manager |-> [cm EXCEPT !.cache = move_to_end(@, key),
                                    !.hits = @ + 1],
             value |-> cache_getitem(cm.cache, key).value]
       ELSE [manager |-> [cm EXCEPT !.cache = cache_delitem(@, key),
                                    !.misses = @ + 1],
             value |-> NoneValue]
  ELSE [manager |-> [cm EXCEPT !.misses = @ + 1], value |-> NoneValue]

\* CacheManager.invalidate
invalidate(cm, key) == [cm EXCEPT !.cache = cache_delitem(@, key)]

\* CacheManager.clear
clear(cm) == [cm EXCEPT !.cache = <<>>, !.hits = 0, !.misses = 0]

\* CacheManager.cleanup_expired at time t
cleanup_expired(cm, t) ==
  [cm EXCEPT !.cache = SelectSeq(@, LAMBDA e : ~(t - e.timestamp >= cm.ttl))]


\* the run-scoped state is that of a newly constructed orchestrator
IsNew ==
  /\ \A s \in Registered : agents[s] = agent_reset(agents[s])
  /\ oactivities = <<>>
  /\ oresults = <<>>
  /\ ostatus = "IDLE"

Init ==
  /\ agents = [s \in Registered |-> NewAgent]
  /\ ostatus = "IDLE"
  /\ oactivities = <<>>
  /\ oresults = <<>>
  /\ clock = 0
  /\ pc = "idle"
  /\ op = "none"
  /\ data = Frame
  /\ context = EmptyCtx
  /\ req = [given |-> FALSE, names |-> <<>>]
  /\ selected = {}
  /\ results = <<>>
  /\ phase = 1
  /\ cur = "data_profiler"
  /\ step = 0
  /\ ostart = NoTime
  /\ ret = NoRet
  /\ araised = ""
  /\ fresh = TRUE
  /\ delivered = <<>>
  /\ df = NoFrame
  /\ client = FALSE
  /\ response_cache = EmptyCache
  /\ analysis_context = Unset
  /\ qnow = 0
  /\ qret = NoRet
  /\ table = NoTable
  /\ wanted = {}
  /\ dphase = 0
  /\ dcontext = NoDataCtx
  /\ dresults = NoResults
  /\ series = NoSeries
  /\ methods = {}
  /\ outlier_result = NoOutliers
  /\ found = NothingFound
  /\ insights = <<>>
  /\ cache_manager = NoCacheManager
  /\ time_now = 0
  /\ cache_ret = NoneValue

\* AgentOrchestrator.analyze, from its first line to the first phase
AnalyzeCall(d, c, given, names) ==
  LET r == [given |-> given, names |-> names] IN
  /\ CanCall
  /\ op' = "analyze"
  /\ data' = d
  /\ context' = c
  /\ req' = r
  /\ ostart' = clock
  /\ fresh' = IsNew
  /\ delivered' = <<>>
  /\ df' \in FramesOf(d)
  /\ IF select_raises(r)
     THEN /\ ostatus' = "FAILED"
          /\ pc' = "returned"
          /\ ret' = [kind |-> "aggregate", status |-> "failed",
                     error |-> UnhashableMsg, agents_run |-> <<>>,
                     results |-> <<>>,
                     activities |-> get_all_activities(oactivities)]
          /\ UNCHANGED <<selected, results, phase>>
     ELSE /\ ostatus' = "RUNNING"
          /\ pc' = "dispatch"
          /\ selected' = select_agents(r)
          /\ results' = <<>>
          /\ phase' = 1
          /\ ret' = NoRet
  /\ UNCHANGED <<agents, oactivities, oresults, clock, cur, step, araised,
                 other_vars>>

\* a phase whose stage was not selected
PhaseSkip ==
  /\ pc = "dispatch"
  /\ phase <= Len(StageOrder)
  /\ PhaseStage(phase) \notin selected
  /\ phase' = phase + 1
  /\ UNCHANGED <<agents, ostatus, oactivities, oresults, clock, pc, op, data,
                 context, req, selected, results, cur, step, ostart, ret,
                 araised, fresh, delivered, df, other_vars>>

\* a phase whose stage was selected: execute is entered
PhaseExecute ==
  /\ pc = "dispatch"
  /\ phase <= Len(StageOrder)
  /\ PhaseStage(phase) \in selected
  /\ LET s == PhaseStage(phase)
         a == execute_begin(agents[s], s, clock)
     IN /\ agents' = [agents EXCEPT ![s] = a]
        /\ delivered' = on_activity_call(a, delivered)
        /\ cur' = s
  /\ clock' = clock + 2
  /\ pc' = "analyze"
  /\ step' = 0
  /\ araised' = ""
  /\ UNCHANGED <<ostatus, oactivities, oresults, op, data, context, req,
                 selected, results, phase, ostart, ret, fresh, df,
                 other_vars>>

\* what the caller of execute does with the outcome o it returned; a is the
\* stage after execute, dl and t the subscriber's record and the clock then
Returned(s, a, o, dl, t) ==
  /\ agents' = [agents EXCEPT ![s] = a]
  /\ delivered' = dl
  /\ clock' = t
  /\ IF op = "analyze"
     THEN /\ results' = Append(results, o)
          /\ oactivities' = _collect_activities(oactivities, a)
          /\ context' = context_after(context, s, o)
          /\ pc' = "dispatch"
          /\ phase' = next_phase(phase, o)
          /\ ret' = ret
     ELSE /\ oactivities' = IF op = "run_single_agent"
                            THEN _collect_activities(oactivities, a)
                            ELSE oactivities
          /\ pc' = "returned"
          /\ ret' = [kind |-> "outcome", outcome |-> o]
          /\ UNCHANGED <<results, context, phase>>

\* analyze of the stage: the data conversion and the first emission
AnalyzeConvert ==
  /\ pc = "analyze"
  /\ step = 0
  /\ IF convert_error(data) # ""
     THEN LET a == execute_failed(agents[cur], cur, convert_error(data), clock)
          IN /\ Returned(cur, a, failed_outcome(a, cur),
                         on_activity_call(a, delivered), clock + 2)
             /\ araised' = convert_error(data)
             /\ step' = step
     ELSE LET a == emit_activity(agents[cur], cur, <<"", AnalyzeActions[cur][1]>>,
                                 "RUNNING", NoDetails, clock)
          IN /\ agents' = [agents EXCEPT ![cur] = a]
             /\ delivered' = on_activity_call(a, delivered)
             /\ clock' = clock + 1
             /\ step' = 1
             /\ UNCHANGED <<oactivities, context, pc, results, phase, ret, araised>>
  /\ UNCHANGED <<ostatus, oresults, op, data, req, selected, cur, ostart, fresh,
                 df, other_vars>>

\* a variant whose emissions all carry the status completed
AnalyzeEmit_completed ==
  /\ pc = "analyze"
  /\ step >= 1
  /\ step < NumEmits(cur) - 1
  /\ LET a == emit_activity(agents[cur], cur, <<"", AnalyzeActions[cur][step + 1]>>,
                            "COMPLETED", NoDetails, clock)
     IN /\ agents' = [agents EXCEPT ![cur] = a]
        /\ delivered' = on_activity_call(a, delivered)
  /\ clock' = clock + 1
  /\ step' = step + 1
  /\ UNCHANGED <<ostatus, oactivities, oresults, pc, op, data, context, req,
                 selected, results, phase, cur, ostart, ret, araised, fresh,
                 df, other_vars>>

\* analyze of the stage: a helper emits its activity
AnalyzeEmit ==
  /\ pc = "analyze"
  /\ step >= 1
  /\ step < NumEmits(cur) - 1
  /\ LET a == emit_activity(agents[cur], cur, <<"", AnalyzeActions[cur][step + 1]>>,
                            "RUNNING", NoDetails, clock)
     IN /\ agents' = [agents EXCEPT ![cur] = a]
        /\ delivered' = on_activity_call(a, delivered)
  /\ clock' = clock + 1
  /\ step' = step + 1
  /\ UNCHANGED <<ostatus, oactivities, oresults, pc, op, data, context, req,
                 selected, results, phase, cur, ostart, ret, araised, fresh,
                 df, other_vars>>

\* analyze of the stage: a computation raises
AnalyzeRaise ==
  /\ pc = "analyze"
  /\ step >= 1
  /\ step <= MaxRaiseStep
  /\ step <= NumEmits(cur) - 1
  /\ LET a == execute_failed(agents[cur], cur, StageErrorMsg, clock)
     IN Returned(cur, a, failed_outcome(a, cur),
                 on_activity_call(a, delivered), clock + 2)
  /\ araised' = StageErrorMsg
  /\ UNCHANGED <<ostatus, oresults, op, data, req, selected, cur, step, ostart,
                 fresh, df, other_vars>>

\* analyze of the stage: the last emission and the return
AnalyzeReturn ==
  /\ pc = "analyze"
  /\ step = NumEmits(cur) - 1
  /\ LET res == analyze_results(cur, data, context)
         a1 == emit_activity(agents[cur], cur, <<"", AnalyzeActions[cur][step + 1]>>,
                             "COMPLETED", NoDetails, clock)
         a2 == execute_completed(a1, cur, res, clock + 1)
     IN Returned(cur, a2, completed_outcome(a2, cur, res),
                 on_activity_call(a2, on_activity_call(a1, delivered)), clock + 3)
  /\ step' = step + 1
  /\ df' = [df EXCEPT !.now = df_after(cur, @)]
  /\ UNCHANGED <<ostatus, oresults, op, data, req, selected, cur, ostart,
                 araised, fresh, other_vars>>

\* AgentOrchestrator.analyze, after the four phases; its frame is dropped
AnalyzeFinish ==
  /\ pc = "dispatch"
  /\ phase > Len(StageOrder)
  /\ oresults' = results
  /\ ostatus' = "COMPLETED"
  /\ pc' = "returned"
  /\ ret' = [kind |-> "aggregate", status |-> "completed", error |-> AbsentStr,
             duration |-> clock - ostart,
             agents_run |-> AgentsRun(results), results |-> results,
             activities |-> get_all_activities(oactivities),
             summary |-> _create_summary(results, oactivities)]
  /\ selected' = {}
  /\ results' = <<>>
  /\ phase' = 1
  /\ ostart' = NoTime
  /\ UNCHANGED <<agents, oactivities, clock, op, data, context, req, cur, step,
                 araised, fresh, delivered, df, other_vars>>

\* a variant that marks the orchestrator running, as analyze does
RunSingleAgent_sets_status(name, d, c) ==
  /\ CanCall
  /\ op' = "run_single_agent"
  /\ data' = d
  /\ context' = c
  /\ req' = [given |-> FALSE, names |-> <<>>]
  /\ fresh' = IsNew
  /\ delivered' = <<>>
  /\ df' \in FramesOf(d)
  /\ IF name \notin Registered
     THEN /\ ret' = [kind |-> "raised", error |-> NotFoundMsg]
          /\ pc' = "returned"
          /\ UNCHANGED <<agents, clock, cur, step, araised>>
     ELSE LET a == execute_begin(agents[name], name, clock)
          IN /\ agents' = [agents EXCEPT ![name] = a]
             /\ clock' = clock + 2
             /\ pc' = "analyze"
             /\ cur' = name
             /\ step' = 0
             /\ araised' = ""
             /\ ret' = NoRet
  /\ ostatus' = "RUNNING"
  /\ UNCHANGED <<oactivities, oresults, selected, results, phase, ostart,
                 other_vars>>

\* AgentOrchestrator.run_single_agent, up to the call of analyze
RunSingleAgent(name, d, c) ==
  /\ CanCall
  /\ op' = "run_single_agent"
  /\ data' = d
  /\ context' = c
  /\ req' = [given |-> FALSE, names |-> <<>>]
  /\ fresh' = IsNew
  /\ delivered' = <<>>
  /\ df' \in FramesOf(d)
  /\ IF name \notin Registered
     THEN /\ ret' = [kind |-> "raised", error |-> NotFoundMsg]
          /\ pc' = "returned"
          /\ UNCHANGED <<agents, clock, cur, step, araised>>
     ELSE LET a == execute_begin(agents[name], name, clock)
          IN /\ agents' = [agents EXCEPT ![name] = a]
             /\ clock' = clock + 2
             /\ pc' = "analyze"
             /\ cur' = name
             /\ step' = 0
             /\ araised' = ""
             /\ ret' = NoRet
  /\ UNCHANGED <<ostatus, oactivities, oresults, selected, results, phase, ostart,
                 other_vars>>

\* a variant that keeps the orchestrator's aggregate activities
Reset_keeps_activities ==
  /\ pc = "idle"
  /\ agents' = [s \in Registered |-> agent_reset(agents[s])]
  /\ oresults' = <<>>
  /\ ostatus' = "IDLE"
  /\ UNCHANGED <<oactivities, clock, pc, op, data, context, req, selected,
                 results, phase, cur, step, ostart, ret, araised, fresh,
                 delivered, df, other_vars>>

\* AgentOrchestrator.reset
Reset ==
  /\ pc = "idle"
  /\ agents' = [s \in Registered |-> agent_reset(agents[s])]
  /\ oactivities' = <<>>
  /\ oresults' = <<>>
  /\ ostatus' = "IDLE"
  /\ UNCHANGED <<clock, pc, op, data, context, req, selected, results, phase,
                 cur, step, ostart, ret, araised, fresh, delivered, df,
                 other_vars>>

\* a variant that does not check the file extension
load_error_any_type(f) ==
  IF f = "broken.csv" THEN EncodingMsg ELSE ""

\* the loader of analyze_dataset: the message it raises, or "" when the file
\* is read into a DataFrame
load_error(f) ==
  IF f = "notes.txt" THEN FileTypeMsg
  ELSE IF f = "broken.csv" THEN EncodingMsg
  ELSE ""

\* the Celery task analyze_dataset: it loads the file, resets the global
\* orchestrator and calls analyze(data=, context=, event_callback=); analyze
\* has no parameter event_callback, so the call raises TypeError before the
\* body of analyze runs; the except branch inserts the failed job document
\* and returns the error
analyze_dataset(f) ==
  /\ pc = "idle"
  /\ op' = "analyze_dataset"
  /\ pc' = "returned"
  /\ delivered' = <<>>
  /\ IF load_error(f) # ""
     THEN /\ ret' = [kind |-> "task", status |-> "failed", filename |-> f,
                     error |-> load_error(f), loaded |-> FALSE]
          /\ UNCHANGED <<agents, oactivities, oresults, ostatus>>
     ELSE /\ agents' = [s \in Registered |-> agent_reset(agents[s])]
          /\ oactivities' = <<>>
          /\ oresults' = <<>>
          /\ ostatus' = "IDLE"
          /\ ret' = [kind |-> "task", status |-> "failed", filename |-> f,
                     error |-> KeywordMsg, loaded |-> TRUE]
  /\ UNCHANGED <<clock, data, context, req, selected, results, phase, cur,
                 step, ostart, araised, fresh, df, other_vars>>

\* the caller takes the returned value (or the exception) and the frame of
\* the call is gone
CallerResumes ==
  /\ pc = "returned"
  /\ pc' = "idle"
  /\ op' = "none"
  /\ data' = Frame
  /\ context' = EmptyCtx
  /\ req' = [given |-> FALSE, names |-> <<>>]
  /\ cur' = "data_profiler"
  /\ step' = 0
  /\ ret' = NoRet
  /\ araised' = ""
  /\ fresh' = TRUE
  /\ delivered' = <<>>
  /\ df' = NoFrame
  /\ UNCHANGED <<agents, ostatus, oactivities, oresults, clock, selected,
                 results, phase, ostart, other_vars>>

\* BaseAgent.execute called on one stage directly
StageExecute(name, d, c) ==
  /\ CanCall
  /\ op' = "execute"
  /\ data' = d
  /\ context' = c
  /\ LET a == execute_begin(agents[name], name, clock)
     IN /\ agents' = [agents EXCEPT ![name] = a]
        /\ delivered' = on_activity_call(a, <<>>)
  /\ clock' = clock + 2
  /\ pc' = "analyze"
  /\ cur' = name
  /\ step' = 0
  /\ araised' = ""
  /\ ret' = NoRet
  /\ fresh' = IsNew
  /\ df' \in FramesOf(d)
  /\ UNCHANGED <<ostatus, oactivities, oresults, req, selected, results, phase,
                 ostart, other_vars>>

\* BaseAgent.reset called on one stage directly
StageReset(name) ==
  /\ pc = "idle"
  /\ agents' = [agents EXCEPT ![name] = agent_reset(@)]
  /\ UNCHANGED <<ostatus, oactivities, oresults, clock, pc, op, data, context,
                 req, selected, results, phase, cur, step, ostart, ret, araised,
                 fresh, delivered, df, other_vars>>

\* BaseAgent.set_event_callback
set_event_callback(name, cb) ==
  /\ pc = "idle"
  /\ agents[name].on_activity = "none"
  /\ Cardinality({s \in Registered : agents[s].on_activity # "none"}) < MaxCallbacks
  /\ agents' = [agents EXCEPT ![name].on_activity = cb]
  /\ UNCHANGED <<ostatus, oactivities, oresults, clock, pc, op, data, context,
                 req, selected, results, phase, cur, step, ostart, ret, araised,
                 fresh, delivered, df, other_vars>>


\* ---- the query agent
\* QueryAgent.__init__: a client is created when an API key is at hand
QueryAgentInit(has_key) ==
  /\ client' = has_key
  /\ response_cache' = EmptyCache
  /\ analysis_context' = Unset
  /\ qret' = NoRet
  /\ UNCHANGED <<pvars, dvars, uvars, qnow>>

\* QueryAgent.analyze: the context is stored on the agent
QueryAnalyze(ctx) ==
  /\ ctx.given
  /\ analysis_context # ctx
  /\ analysis_context' = ctx
  /\ UNCHANGED <<pvars, dvars, uvars, client, response_cache, qnow, qret>>

\* ten minutes pass
Tick ==
  /\ qnow < MaxNow
  /\ qnow' = qnow + 1
  /\ UNCHANGED <<pvars, dvars, uvars, client, response_cache, analysis_context, qret>>

\* QueryAgent.answer_question(question, data=None, context), while the
\* backend is in condition b
AnswerQuestion(q, ctx, b) ==
  LET nq == _normalize_question(q)
      key == _get_cache_key(nq, ctx)
      call == [question |-> q, context |-> ctx,
               backend |-> IF client THEN b ELSE "unused"]
      raised(msg) == [kind |-> "raised", value |-> NoAnswer, error |-> msg, call |-> call]
      returned(v) == [kind |-> "returned", value |-> v, error |-> "", call |-> call]
      read == cache_after_read(response_cache, key, qnow)
      rule == _enhanced_fallback_answer(nq, ctx, qnow)
      llm == _llm_answer(nq, ctx, b, qnow)
  IN
  /\ IF ~ctx.given
     THEN \* _get_cache_key calls context.get on None
          /\ qret' = raised(AttributeErrorMsg)
          /\ response_cache' = response_cache
     ELSE IF cache_hit(response_cache, key, qnow)
     THEN LET v == [response_cache[key].response EXCEPT !.from_cache = TRUE]
          IN /\ qret' = returned(v)
             /\ response_cache' = [response_cache EXCEPT ![key].response = v]
     ELSE IF ~client
     THEN /\ qret' = returned(rule)
          /\ response_cache' = _cache_response(read, key, rule, qnow)
     ELSE IF llm_call_binds
     THEN /\ qret' = returned(llm)
          /\ response_cache' = _cache_response(read, key, llm, qnow)
     ELSE /\ qret' = raised(ArityMsg)
          /\ response_cache' = read
  /\ UNCHANGED <<pvars, dvars, uvars, client, analysis_context, qnow>>

\* ---- a run followed through the values of its table
\* AgentOrchestrator.analyze(data, agents_to_run), up to the first phase.
\* A run reads nothing an earlier run has left, so one run is followed.
DataAnalyze(t, r) ==
  /\ dphase = 0
  /\ table' = t
  /\ wanted' = select_agents(r)
  /\ dphase' = 1
  /\ dcontext' = NoDataCtx
  /\ dresults' = NoResults
  /\ UNCHANGED <<pvars, qvars, uvars>>

\* one phase of AgentOrchestrator.analyze: the stage s, if it was selected,
\* is executed and its outcome stored
RunStage(s) ==
  /\ dphase \in 1..Len(StageOrder)
  /\ s = PhaseStage(dphase)
  /\ LET o == stage_execute(s, table, dcontext)
     IN IF s \in wanted
        THEN /\ dresults' = [dresults EXCEPT ![s] = o]
             /\ dcontext' = data_context_after(dcontext, s, o)
        ELSE UNCHANGED <<dresults, dcontext>>
  /\ dphase' = dphase + 1
  /\ UNCHANGED <<table, wanted, pvars, qvars, uvars>>

\* ---- the statistical primitives
\* a call of outlier_detection.detect_outliers(series, methods); the
\* function keeps no state, so one call is followed
DetectOutliers(sr, ms) ==
  /\ series = NoSeries /\ methods = {}
  /\ series' = sr
  /\ methods' = ms
  /\ outlier_result' = detect_outliers(sr, ms)
  /\ UNCHANGED <<pvars, qvars, dvars, ivars, cvars>>

\* InsightDiscoveryAgent.analyze, from the findings to the insights; the
\* synthesis keeps no state, so one call is followed
GenerateInsights(r) ==
  /\ found = NothingFound
  /\ found' = r
  /\ insights' = _generate_insights_of(r)
  /\ UNCHANGED <<pvars, qvars, dvars, ovars, cvars>>

\* ---- utils/cache_manager.py
\* CacheManager(max_size, ttl)
CacheConstruct(m, t) ==
  /\ cache_manager = NoCacheManager
  /\ cache_manager' = CacheManager_init(m, t)
  /\ cache_ret' = NoneValue
  /\ UNCHANGED <<time_now, pvars, qvars, dvars, ovars, ivars>>

\* time passes between two calls
CacheTick ==
  /\ cache_manager # NoCacheManager
  /\ time_now < MaxTime
  /\ time_now' = time_now + 1
  /\ UNCHANGED <<cache_manager, cache_ret, pvars, qvars, dvars, ovars, ivars>>

\* CacheManager.set(key, value)
CacheSet(key, value) ==
  /\ cache_manager # NoCacheManager
  /\ cache_manager' = set(cache_manager, key, value, time_now)
  /\ cache_ret' = NoneValue
  /\ UNCHANGED <<time_now, pvars, qvars, dvars, ovars, ivars>>

\* CacheManager.get(key)
CacheGet(key) ==
  /\ cache_manager # NoCacheManager
  /\ cache_manager.hits + cache_manager.misses < MaxLookups
  /\ cache_manager' = get(cache_manager, key, time_now).manager
  /\ cache_ret' = get(cache_manager, key, time_now).value
  /\ UNCHANGED <<time_now, pvars, qvars, dvars, ovars, ivars>>

\* CacheManager.invalidate(key)
CacheInvalidate(key) ==
  /\ cache_manager # NoCacheManager
  /\ cache_manager' = invalidate(cache_manager, key)
  /\ cache_ret' = NoneValue
  /\ UNCHANGED <<time_now, pvars, qvars, dvars, ovars, ivars>>

\* CacheManager.clear()
CacheClear ==
  /\ cache_manager # NoCacheManager
  /\ cache_manager' = clear(cache_manager)
  /\ cache_ret' = NoneValue
  /\ UNCHANGED <<time_now, pvars, qvars, dvars, ovars, ivars>>

\* CacheManager.cleanup_expired()
CacheCleanupExpired ==
  /\ cache_manager # NoCacheManager
  /\ cache_manager' = cleanup_expired(cache_manager, time_now)
  /\ cache_ret' = NoneValue
  /\ UNCHANGED <<time_now, pvars, qvars, dvars, ovars, ivars>>

\* ---------------------------------------------------------- specifications
\* the orchestrator and the worker task
Next ==
  \/ \E d \in DataKinds, names \in ReqLists : AnalyzeCall(d, FileCtx, TRUE, names)
  \/ \E d \in DataKinds, c \in CtxInputs : AnalyzeCall(d, c, FALSE, <<>>)
  \/ PhaseSkip
  \/ PhaseExecute
  \/ AnalyzeConvert
  \/ AnalyzeEmit
  \/ AnalyzeRaise
  \/ AnalyzeReturn
  \/ AnalyzeFinish
  \/ \E name \in Registered \cup {Unregistered}, d \in DataKinds :
        RunSingleAgent(name, d, EmptyCtx)
  \/ Reset
  \/ \E f \in Files : analyze_dataset(f)
  \/ CallerResumes

Spec == Init /\ [][Next]_vars

\* one stage driven through its own interface
NextAgent ==
  \/ \E name \in Registered, d \in DataKinds, c \in CtxInputs : StageExecute(name, d, c)
  \/ AnalyzeConvert
  \/ AnalyzeEmit
  \/ AnalyzeRaise
  \/ AnalyzeReturn
  \/ \E name \in Registered : StageReset(name)
  \/ \E name \in Registered, cb \in Callbacks : set_event_callback(name, cb)
  \/ CallerResumes

SpecAgent == Init /\ [][NextAgent]_vars

\* the query agent
NextQuery ==
  \/ \E k \in BOOLEAN : QueryAgentInit(k)
  \/ \E ctx \in StoredContexts : QueryAnalyze(ctx)
  \/ Tick
  \/ \E q \in Questions, ctx \in QContexts, b \in Backends : AnswerQuestion(q, ctx, b)

SpecQuery == Init /\ [][NextQuery]_vars

\* the stages, on the values of a table
NextData ==
  \/ dphase = 0 /\ \E t \in Tables, r \in DataRequests : DataAnalyze(t, r)
  \/ \E s \in Registered : RunStage(s)

SpecData == Init /\ [][NextData]_vars

\* outlier detection on one series
NextOutliers ==
  /\ series = NoSeries /\ methods = {}
  /\ \E sr \in SeriesInputs, ms \in SUBSET MethodNames : DetectOutliers(sr, ms)

SpecOutliers == Init /\ [][NextOutliers]_vars

\* insight synthesis on one set of findings
NextInsights ==
  /\ found = NothingFound
  /\ \E r \in Findings : GenerateInsights(r)

SpecInsights == Init /\ [][NextInsights]_vars

\* one CacheManager and the calls of its methods
NextCache ==
  \/ \E m \in 1..MaxCacheSize, t \in 1..MaxTime : CacheConstruct(m, t)
  \/ CacheTick
  \/ \E key \in CacheKeys, value \in CacheValues : CacheSet(key, value)
  \/ \E key \in CacheKeys : CacheGet(key)
  \/ \E key \in CacheKeys : CacheInvalidate(key)
  \/ CacheClear
  \/ CacheCleanupExpired

SpecCache == Init /\ [][NextCache]_vars



\* ------------------------------------------------------------------ claims
FixedOrder == <<"data_profiler", "insight_discovery", "visualization", "recommendation">>

FixedSet == {FixedOrder[i] : i \in 1..Len(FixedOrder)}

Rank(s) == CHOOSE i \in 1..Len(FixedOrder) : FixedOrder[i] = s

Terminal == {"COMPLETED", "FAILED"}

\* the registered names a request asks for
Requested(r) ==
  IF r.given /\ r.names # <<>> THEN Range(r.names) \cap FixedSet ELSE FixedSet

\* a sequence of stage names is in the fixed order, without repetition
InFixedOrder(q) == \A i, j \in 1..Len(q) : i < j => Rank(q[i]) < Rank(q[j])

AnalyzeReturned == pc = "returned" /\ op = "analyze" /\ ret.kind = "aggregate"

\* C1: the stages of a run execute in the order data_profiler,
\* insight_discovery, visualization, recommendation whatever the order of the
\* request: while a stage runs, every requested stage that is earlier in the
\* order has finished and none that is later has started, and agents_run
\* lists the executed stages in that order.
C1_FixedOrder ==
  op = "analyze" =>
    /\ InFixedOrder(AgentsRun(results))
    /\ pc = "analyze" =>
         /\ \A i \in 1..Len(results) : Rank(results[i].agent) < Rank(cur)
         /\ \A s \in Requested(req) :
              Rank(s) < Rank(cur) =>
                /\ s \in Range(AgentsRun(results))
                /\ agents[s].status \in Terminal
    /\ (pc = "returned" /\ ret.status = "completed") =>
         /\ InFixedOrder(ret.agents_run)
         /\ Range(ret.agents_run) = Requested(req)

C1_Witness ==
  /\ AnalyzeReturned
  /\ req.names = <<"recommendation", "data_profiler">>
  /\ ret.agents_run = <<"data_profiler", "recommendation">>

\* C2: execute turns an exception of analyze into a failure outcome: when
\* analyze raised, execute returns status failed with the exception's message
\* as error, and the stage has status failed, that message as error and an
\* end time.
C2_ExecuteCapturesException ==
  (pc = "returned" /\ op = "execute" /\ araised # "") =>
    /\ ret.kind = "outcome"
    /\ ret.outcome.status = "failed"
    /\ ret.outcome.error = araised
    /\ agents[cur].status = "FAILED"
    /\ agents[cur].error = araised
    /\ agents[cur].end_time # NoTime

C2_Witness ==
  /\ pc = "returned"
  /\ op = "execute"
  /\ araised = StageErrorMsg
  /\ ret.outcome.error = StageErrorMsg

\* C3: a run in which a stage failed still returns an aggregate result with
\* status completed that has an entry for every requested registered stage,
\* the later ones included; a failed entry belongs to a stage whose status is
\* failed and carries a non-null error.
C3_FailureDoesNotAbort ==
  (AnalyzeReturned /\ \E i \in 1..Len(ret.results) : ret.results[i].status = "failed") =>
    /\ ret.status = "completed"
    /\ Range(ret.agents_run) = Requested(req)
    /\ \A i \in 1..Len(ret.results) :
         /\ ret.results[i].agent = ret.agents_run[i]
         /\ (ret.results[i].status = "failed") = (agents[ret.agents_run[i]].status = "FAILED")
         /\ ret.results[i].status = "failed" => ret.results[i].error \notin {NoneStr, AbsentStr}

C3_Witness ==
  /\ AnalyzeReturned
  /\ Len(ret.results) = 4
  /\ ret.results[1].status = "failed"
  /\ ret.results[2].status = "completed"
  /\ ret.results[4].status = "completed"


\* the orchestrator's own logic raised: an unhashable requested name
OwnLogicRaised(r) == r.given /\ r.names # <<>> /\ Unhashable \in Range(r.names)

\* C4: the run status is failed exactly when an exception escaped in the
\* orchestrator's own logic, and the orchestrator's status agrees with it;
\* stage failures leave it completed, and the summary counts them: a run in
\* which every stage failed has failed_agents equal to the number of stages
\* run.
C4_RunStatus ==
  AnalyzeReturned =>
    /\ (ret.status = "failed") = OwnLogicRaised(req)
    /\ (ret.status = "completed") = ~OwnLogicRaised(req)
    /\ StatusValue[ostatus] = ret.status
    /\ ret.status = "completed" =>
         /\ ret.summary.failed_agents =
              Cardinality({i \in 1..Len(ret.results) : ret.results[i].status = "failed"})
         /\ (\A i \in 1..Len(ret.results) : ret.results[i].status = "failed") =>
              ret.summary.failed_agents = Len(ret.agents_run)

C4_Witness ==
  /\ AnalyzeReturned
  /\ ret.status = "completed"
  /\ Len(ret.agents_run) = 4
  /\ \A i \in 1..4 : ret.results[i].status = "failed"
  /\ ret.summary.failed_agents = 4

\* the message an unusable data argument makes a stage raise
DataMessage(d) == IF d = Other THEN "Unsupported data type" ELSE "No such file or directory"

\* the message the loader of the worker task raises for a file
LoaderMessage(f) ==
  IF f = "notes.txt" THEN "Unsupported file type"
  ELSE "Could not read CSV file with any supported encoding"

\* C5 as stated: with data of an unsupported type or from an unreadable
\* source no stage reaches running, and the run returns status failed with
\* the original message as its error.
C5_AbortsBeforeAnyStage ==
  (op = "analyze" /\ data \in {Other, BadPath}) =>
    /\ \A s \in Registered : agents[s].status # "RUNNING"
    /\ pc = "returned" => (ret.status = "failed" /\ ret.error = DataMessage(data))

\* C5 as amended: a file of unsupported type or an unreadable file makes the
\* worker task fail before the orchestrator is touched, with the loader's
\* message as the error of the failed job; unusable data passed to analyze
\* itself makes every requested stage fail with the message as its error,
\* while the run returns completed.
C5_LoaderAbortsStagesFail ==
  [][ /\ (pc' = "returned" /\ op' = "analyze_dataset"
            /\ ret'.filename \in {"notes.txt", "broken.csv"}) =>
          /\ ret'.status = "failed"
          /\ ret'.error = LoaderMessage(ret'.filename)
          /\ agents' = agents
          /\ oactivities' = oactivities
          /\ ostatus' = ostatus
      /\ (pc' = "returned" /\ op' = "analyze" /\ data' \in {Other, BadPath}
            /\ ~OwnLogicRaised(req')) =>
          /\ ret'.status = "completed"
          /\ Range(ret'.agents_run) = Requested(req')
          /\ \A i \in 1..Len(ret'.results) :
               /\ ret'.results[i].status = "failed"
               /\ ret'.results[i].error = DataMessage(data')
    ]_vars

C5_Witness ==
  /\ pc = "returned"
  /\ op = "analyze_dataset"
  /\ ret.filename = "notes.txt"
  /\ ret.error = "Unsupported file type"
  /\ \E s \in Registered : agents[s].status = "FAILED"

\* C6 as stated: a status that is completed or failed changes only to idle,
\* which only reset() sets.
C6_TerminalLeftOnlyByReset ==
  [][\A s \in Registered :
       (agents[s].status \in Terminal /\ agents'[s].status # agents[s].status)
         => agents'[s].status = "IDLE"]_vars

\* C6 as amended: a status that is completed or failed changes only to idle,
\* by reset(), or to running, by the first step of a new execute call on
\* that stage; no other step changes it.
C6_TerminalLeftByResetOrExecute ==
  [][\A s \in Registered :
       (agents[s].status \in Terminal /\ agents'[s].status # agents[s].status)
         => \/ /\ agents'[s].status = "IDLE"
               /\ pc = "idle"
               /\ pc' = "idle"
            \/ /\ agents'[s].status = "RUNNING"
               /\ pc = "idle"
               /\ pc' = "analyze"
               /\ cur' = s]_vars

C6_Witness ==
  \E s \in Registered :
    /\ agents[s].status = "RUNNING"
    /\ agents[s].end_time # NoTime
    /\ Len(agents[s].activities) > 1

\* C7: in a full run every finished stage has put its output into the
\* context under a key of its own, so the context handed to a later stage
\* holds the output of every earlier one.
C7_ContextHoldsEveryOutput ==
  (op = "analyze" /\ pc \in {"dispatch", "analyze"} /\ selected = Registered) =>
    /\ Cardinality(DOMAIN context \ {"filename"}) = Len(results)
    /\ \A i \in 1..Len(results) :
         \E k \in DOMAIN context \ {"filename"} : context[k] = GetResults(results[i])

RECURSIVE ConcatLogs(_, _)
ConcatLogs(names, ag) ==
  IF names = <<>> THEN <<>>
  ELSE get_activities(ag[Head(names)]) \o ConcatLogs(Tail(names), ag)

\* C8: a run that began on a new or just-reset orchestrator returns as
\* activities the logs of the stages that ran, concatenated in the order the
\* stages ran.
C8_ActivitiesAreConcatenation ==
  (AnalyzeReturned /\ fresh) => ret.activities = ConcatLogs(ret.agents_run, agents)

C8_Witness ==
  /\ AnalyzeReturned
  /\ fresh
  /\ Len(ret.agents_run) >= 2
  /\ Len(ret.activities) > Len(agents[ret.agents_run[1]].activities)
  /\ ret.activities = ConcatLogs(ret.agents_run, agents)

RECURSIVE TotalLogged(_, _)
TotalLogged(S, ag) ==
  IF S = {} THEN 0
  ELSE LET s == CHOOSE x \in S : TRUE
       IN Len(ag[s].activities) + TotalLogged(S \ {s}, ag)

\* C9: once the worker task has loaded its file, the pipeline runs with the
\* task's callback as subscriber of every stage, and the callback has been
\* handed every activity the stages emitted.
C9_ActivitiesForwardedLive ==
  (pc = "returned" /\ op = "analyze_dataset" /\ ret.loaded) =>
    /\ \A s \in Registered : agents[s].on_activity = "record"
    /\ \A s \in Registered : agents[s].status \in Terminal
    /\ Len(delivered) = TotalLogged(Registered, agents)

\* the activities the stage logged since its current execute call began
LoggedThisCall(a) ==
  LET ThisCall(x) == x.timestamp > a.start_time
  IN SelectSeq(a.activities, ThisCall)

\* the (action, status) pairs execute logs when analyze made n emissions and
\* raised msg ("" when it returned)
ExpectedLog(s, n, msg) ==
  <<<< <<"Starting", Description[s]>>, "RUNNING" >>>>
  \o [i \in 1..n |->
        << <<"", AnalyzeActions[s][i]>>,
           IF i = Len(AnalyzeActions[s]) THEN "COMPLETED" ELSE "RUNNING" >>]
  \o (IF msg = "" THEN <<<< <<"Completed", Description[s]>>, "COMPLETED" >>>>
      ELSE <<<< <<"Failed", msg>>, "FAILED" >>>>)

\* C10: with a callback that raises on every emission, execute still logs
\* every activity and ends as it does without a callback: status completed
\* and the results of analyze when analyze returned, status failed with the
\* error of analyze when it raised.
C10_RaisingCallbackIsHarmless ==
  (pc = "returned" /\ op = "execute" /\ agents[cur].on_activity = "raise") =>
    /\ ret.kind = "outcome"
    /\ LET log == LoggedThisCall(agents[cur])
       IN /\ Len(log) = Len(ExpectedLog(cur, step, araised))
          /\ \A i \in 1..Len(log) :
               <<log[i].action, log[i].status>> = ExpectedLog(cur, step, araised)[i]
    /\ araised = "" =>
         /\ agents[cur].status = "COMPLETED"
         /\ agents[cur].results = analyze_results(cur, data, context)
         /\ ret.outcome.results = agents[cur].results
    /\ araised # "" =>
         /\ agents[cur].status = "FAILED"
         /\ agents[cur].error = araised
    /\ delivered = <<>>

C10_Witness ==
  /\ pc = "returned"
  /\ op = "execute"
  /\ agents[cur].on_activity = "raise"
  /\ agents[cur].status = "COMPLETED"
  /\ Len(LoggedThisCall(agents[cur])) = Len(AnalyzeActions[cur]) + 2

\* the run-scoped fields of a stage are those __init__ sets
NewlyConstructed(a) ==
  /\ a.status = "IDLE"
  /\ a.activities = <<>>
  /\ a.results = <<>>
  /\ a.error = "None"
  /\ a.start_time = -1
  /\ a.end_time = -1

\* a step that is a call of reset(): the only steps that begin and end
\* outside every call and leave the registered callbacks alone
ResetStep ==
  /\ pc = "idle"
  /\ pc' = "idle"
  /\ \A s \in Registered : agents'[s].on_activity = agents[s].on_activity

\* C11: reset() of the orchestrator leaves every stage and the orchestrator
\* with the run-scoped state of a newly constructed object (status idle, no
\* activities, no results, no error, no timestamps), and a run that begins in
\* that state ends with stage logs that hold only records emitted after the
\* stage's start time in this run, at most the emissions of one execution,
\* and none for a stage that did not run.
C11_ResetEqualsNew ==
  /\ [][ResetStep =>
          /\ \A s \in Registered : NewlyConstructed(agents'[s])
          /\ oactivities' = <<>>
          /\ oresults' = <<>>
          /\ ostatus' = "IDLE"]_vars
  /\ []((pc = "returned" /\ fresh /\ op \in {"analyze", "run_single_agent"}) =>
          \A s \in Registered :
            /\ LoggedThisCall(agents[s]) = agents[s].activities
            /\ Len(agents[s].activities) <= Len(AnalyzeActions[s]) + 2
            /\ agents[s].start_time = -1 => agents[s].activities = <<>>)

\* a run on a reset orchestrator that had run before: the clock had advanced
\* when the profiler started, and its log holds one execution only
C11_Witness ==
  /\ AnalyzeReturned
  /\ fresh
  /\ agents["data_profiler"].start_time > 0
  /\ Len(agents["data_profiler"].activities) = Len(AnalyzeActions["data_profiler"]) + 2
  /\ Len(ret.activities) = TotalLogged(Registered, agents)

Running == {s \in Registered : agents[s].status = "RUNNING"}

\* C12: at most one stage has status running at any moment, and it is the
\* stage whose execute is in flight; while a stage of an orchestrated run is
\* running, every stage the run started before it is completed or failed.
C12_AtMostOneRunning ==
  /\ Cardinality(Running) <= 1
  /\ \A s \in Running : pc = "analyze" /\ cur = s
  /\ (op = "analyze" /\ pc = "analyze") =>
       \A i \in 1..Len(results) :
         /\ results[i].agent # cur
         /\ agents[results[i].agent].status \in Terminal

C12_Witness ==
  /\ op = "analyze"
  /\ pc = "analyze"
  /\ cur = "visualization"
  /\ Running = {"visualization"}
  /\ Len(results) = 2
  /\ agents["data_profiler"].status = "FAILED"
  /\ agents["insight_discovery"].status = "COMPLETED"

\* C14: throughout a call the DataFrame the caller passed has the columns,
\* with the column types, it had when it was passed: every later stage and
\* the caller after the run see the dataset unchanged.
C14_DatasetNotMutated ==
  (op \in {"analyze", "run_single_agent"} /\ data = Frame) => df.now = df.passed

\* C15: a call of run_single_agent with a registered name changes the state
\* of the named stage only: from its first step to its return the
\* orchestrator's stored results and status, the locals of a full run and
\* every other stage stay as they were, and the context the call was given
\* is not written.
C15_RunSingleAgentFrame ==
  [][(op' = "run_single_agent" /\ pc' # "idle") =>
       /\ oresults' = oresults
       /\ ostatus' = ostatus
       /\ <<selected, results, phase>>' = <<selected, results, phase>>
       /\ \A s \in Registered \ {cur'} : agents'[s] = agents[s]
       /\ pc = "analyze" => (cur' = cur /\ context' = context)]_vars

\* a single-stage run that completed on an orchestrator holding the results
\* of an earlier full run
C15_Witness ==
  /\ pc = "returned"
  /\ op = "run_single_agent"
  /\ ret.kind = "outcome"
  /\ ret.outcome.status = "completed"
  /\ oresults # <<>>
  /\ ostatus = "COMPLETED"
  /\ \E s \in Registered \ {cur} : agents[s].status \in Terminal

\* the registered names among those of a list that was passed
RequestedOfList(r) == IF r.given THEN Range(r.names) \cap FixedSet ELSE FixedSet

\* C16: when analyze was given a list of names, of any length, the stages
\* that executed are exactly the registered names of the list; all four
\* stages run only when no list was given.
C16_ExactlyRequestedRun ==
  (AnalyzeReturned /\ ret.status = "completed") =>
    /\ Range(ret.agents_run) = RequestedOfList(req)
    /\ (Range(ret.agents_run) = FixedSet /\ FixedSet \ Range(req.names) # {}) => ~req.given

\* a step that is a call of answer_question
AnswerStep ==
  /\ qret'.kind \in {"returned", "raised"}
  /\ qret' # qret \/ response_cache' # response_cache

\* thirty minutes, in the unit of the wall clock
ExpiryWindow == 30 \div 10

\* the key of the call the step makes, and the entry the call finds under it
CallKey == _get_cache_key(_normalize_question(qret'.call.question), qret'.call.context)

\* C17: answer_question never returns a response computed thirty minutes ago
\* or earlier; a call that finds an entry of that age under its key returns
\* an answer computed now, not marked from_cache, and leaves that answer in
\* the cache with the time of the call; a call that finds a younger entry
\* returns that entry's response marked from_cache and leaves the entry's
\* time as it was.
C17_CacheExpiry ==
  [][(AnswerStep /\ qret'.call.context.given) =>
       /\ qret'.kind = "returned" => qnow - qret'.value.timestamp < ExpiryWindow
       /\ (CallKey \in DOMAIN response_cache
             /\ qnow - response_cache[CallKey].timestamp >= ExpiryWindow) =>
            /\ qret'.kind = "returned"
            /\ qret'.value.timestamp = qnow
            /\ ~qret'.value.from_cache
            /\ response_cache'[CallKey] = [response |-> qret'.value, timestamp |-> qnow]
       /\ (CallKey \in DOMAIN response_cache
             /\ qnow - response_cache[CallKey].timestamp < ExpiryWindow) =>
            /\ qret'.kind = "returned"
            /\ qret'.value = [response_cache[CallKey].response EXCEPT !.from_cache = TRUE]
            /\ response_cache'[CallKey].timestamp = response_cache[CallKey].timestamp]_vars

\* a call was answered from the cache, and an entry that has reached the
\* expiry window waits to be read
C17_Witness ==
  /\ qret.kind = "returned"
  /\ qret.value.from_cache
  /\ \E k \in DOMAIN response_cache :
       /\ qnow - response_cache[k].timestamp >= ExpiryWindow
       /\ response_cache[k].response.from_cache

\* C18: a call of answer_question made with a context, on an agent with an
\* LLM client, while the backend is unavailable or answers malformed, returns
\* a rule-based answer; it does not raise.
C18_BackendFailureFallsBack ==
  (qret.kind \in {"returned", "raised"}
     /\ qret.call.context.given
     /\ qret.call.backend \in {"down", "malformed"}) =>
    /\ qret.kind = "returned"
    /\ qret.value.source \in {"rule_based", "enhanced_rule_based"}


\* a run of all four stages has executed its last phase
FullRunDone == dphase = Len(StageOrder) + 1 /\ wanted = Registered

\* 40% of the entries of column i are missing
FortyPercentMissing(t, i) == t.rows > 0 /\ t.cols[i].missing * 5 = t.rows * 2

\* the Profiler's missing-value report gives column i the severity sev
SeverityReported(i, sev) ==
  LET o == dresults["data_profiler"]
  IN /\ o.status = "completed"
     /\ i \in DOMAIN o.results.missing_values.columns_with_missing
     /\ o.results.missing_values.columns_with_missing[i].severity = sev

\* the Recommendation stage's output holds a recommendation of this title
Recommended(title) ==
  LET o == dresults["recommendation"]
  IN o.status = "completed" /\ title \in o.results.titles

\* more than a tenth of the cells of the table are missing
OverATenthMissing(t) == SumMissing(t, Len(t.cols)) * 10 > t.rows * Len(t.cols)

\* C19 (as stated): for every dataset in which some column is 40% missing, a
\* full run reports that column's severity as high and the Recommendation
\* stage's output includes 'Handle missing values'.
C19_FortyPercentColumn ==
  FullRunDone =>
    \A i \in 1..Len(table.cols) :
      FortyPercentMissing(table, i) =>
        SeverityReported(i, "high") /\ Recommended("Handle missing values")

\* C19 (amended): for every dataset in which some column is 40% missing, a
\* full run reports that column's severity as high, and the Recommendation
\* stage's output includes 'Handle missing values' exactly when more than
\* 10% of all the cells of the dataset are missing.
C19_FortyPercentColumnOverall ==
  FullRunDone =>
    \A i \in 1..Len(table.cols) :
      FortyPercentMissing(table, i) =>
        /\ SeverityReported(i, "high")
        /\ dresults["recommendation"].status = "completed"
        /\ Recommended("Handle missing values") <=> OverATenthMissing(table)

\* a full run on a table with a 40%-missing column, more than a tenth of
\* whose cells are missing, has given the recommendation
C19_Witness ==
  /\ FullRunDone
  /\ \E i \in 1..Len(table.cols) :
        FortyPercentMissing(table, i) /\ SeverityReported(i, "high")
  /\ OverATenthMissing(table)
  /\ Recommended("Handle missing values")

\* the six numeric-dependent results of a run are empty collections
NumericResultsEmpty ==
  LET p == dresults["data_profiler"].results
      d == dresults["insight_discovery"].results
  IN /\ p.statistics = {} /\ p.outliers = {} /\ p.distributions = {}
     /\ d.correlations = {} /\ d.trends = {} /\ d.anomalies = {}

\* C20: for every dataset with zero rows or with zero numeric columns, the
\* Profiler and Insight Discovery stages complete without raising and every
\* numeric-dependent result (statistics, outliers, distributions,
\* correlations, trends, anomalies) is an empty collection.
C20_EmptyInputsComplete ==
  (/\ dphase = Len(StageOrder) + 1
   /\ {"data_profiler", "insight_discovery"} \subseteq wanted
   /\ (table.rows = 0 \/ numeric_cols(table) = {}))
  => /\ dresults["data_profiler"].status = "completed"
     /\ dresults["insight_discovery"].status = "completed"
     /\ NumericResultsEmpty

\* the quality score the Profiler has stored in the context
ReportedScore == dcontext.profiler_results.quality_score

\* the largest quality score: every sub-score at 100
MaxScore == 100

\* the reported score is below (above) a percentage of the largest score
ScoreBelow(pct) == ReportedScore.num * 100 < pct * MaxScore * ReportedScore.den
ScoreAbove(pct) == ReportedScore.num * 100 > pct * MaxScore * ReportedScore.den

\* C21: in a full run the quality score in the context is on the scale of the
\* thresholds that consume it: a score below 70% of its maximum brings the
\* critical 'Improve overall data quality' recommendation, and 'Ready for
\* predictive modeling' is emitted only when the score is above 80% of its
\* maximum.
C21_ScoreOnThresholdScale ==
  (FullRunDone /\ dresults["data_profiler"].status = "completed") =>
    /\ ScoreBelow(70) => Recommended("Improve overall data quality")
    /\ Recommended("Ready for predictive modeling") => ScoreAbove(80)

\* the activities of a log that execute itself adds when analyze is over
Wrappers(log) == {i \in 1..Len(log) : log[i].action[1] \in {"Completed", "Failed"}}

\* C22: each call of execute appends to the stage's log, in this order, a
\* 'Starting' activity with status running, the activities analyze emitted,
\* and exactly one activity of its own: 'Completed' with duration_seconds
\* when analyze returned, 'Failed' with the error when analyze raised.
C22_ExecuteLogOrder ==
  (pc = "returned" /\ op = "execute") =>
    LET log == LoggedThisCall(agents[cur])
        n == Len(log)
    IN /\ n = step + 2
       /\ log[1].action = <<"Starting", Description[cur]>>
       /\ log[1].status = "RUNNING"
       /\ \A i \in 2..(n - 1) : log[i].action = <<"", AnalyzeActions[cur][i - 1]>>
       /\ Wrappers(log) = {n}
       /\ araised = "" =>
            /\ log[n].action = <<"Completed", Description[cur]>>
            /\ log[n].status = "COMPLETED"
            /\ log[n].details.kind = "duration_seconds"
       /\ araised # "" =>
            /\ log[n].action = <<"Failed", araised>>
            /\ log[n].status = "FAILED"
            /\ log[n].details = [kind |-> "error", num |-> 0, text |-> araised]

\* an execute call whose analyze raised after its own emissions has returned
C22_Witness ==
  /\ pc = "returned"
  /\ op = "execute"
  /\ araised # ""
  /\ step > 0
  /\ Len(LoggedThisCall(agents[cur])) = step + 2
  /\ agents[cur].activities[Len(agents[cur].activities)].action[1] = "Failed"

\* C23: the cache key holds a fingerprint of the context: the answer a call
\* returns for a question and a context is the one computed from that
\* context, whatever earlier calls with other contexts have left in the
\* cache.
C23_AnswerFromCallContext ==
  (qret.kind = "returned" /\ qret.call.context.given /\ qret.value.source # "llm") =>
    qret.value.answer =
      <<_normalize_question(qret.call.question), qret.call.context.result>>

\* C24: a call of answer_question without a context argument returns an
\* answer; it does not raise.
C24_OmittedContextAnswers ==
  (qret.kind \in {"returned", "raised"} /\ ~qret.call.context.given) =>
    qret.kind = "returned"

\* C25: in every run in which the Recommendation stage executes, whether or
\* not the Profiler ran and completed, 'Collect more data' is among the
\* recommendations exactly when the dataset has fewer than 100 rows.
C25_CollectMoreDataByRows ==
  (dphase = Len(StageOrder) + 1 /\ "recommendation" \in wanted) =>
    /\ dresults["recommendation"].status = "completed"
    /\ Recommended("Collect more data") <=> table.rows < 100

\* the methods of the call that flag the value v
Flagging(v) ==
  {m \in methods \cap {"iqr", "zscore"} :
     \/ m = "iqr" /\ _iqr_method(series, v)
     \/ m = "zscore" /\ _zscore_method(series, v)}

\* the number of entries of the series whose value is reported
ReportedEntries == CountOf(series, outlier_result.outliers)

FirstThree(q, x) ==
  {i \in 1..Len(q) :
     q[i] = x /\ Cardinality({j \in 1..(i - 1) : q[j] = x}) < 3}

\* the findings that the insights of a type were made from
InsightsOf(type) == {insights[i].of : i \in {j \in 1..Len(insights) : insights[j].type = type}}

\* C27: insight synthesis gives one anomaly insight for each of the first
\* three high-severity anomalies and one pattern insight for each of the
\* first three dominant-category patterns; when at least one such anomaly
\* (pattern) was detected the list holds at least one anomaly (pattern)
\* insight.
C27_InsightPerFinding ==
  /\ InsightsOf("anomaly") = FirstThree(found.anomalies, "high")
  /\ InsightsOf("pattern") = FirstThree(found.patterns, "dominant_category")
  /\ (\E i \in 1..Len(found.anomalies) : found.anomalies[i] = "high")
       => InsightsOf("anomaly") # {}
  /\ (\E i \in 1..Len(found.patterns) : found.patterns[i] = "dominant_category")
       => InsightsOf("pattern") # {}

\* activity x of stage a was emitted while the status of the stage was running
EmittedWhileRunning(a, x) == a.status = "RUNNING" \/ x.timestamp <= a.end_time

\* the last action analyze of stage s reports
LastAnalyzeAction(s) == <<"", AnalyzeActions[s][Len(AnalyzeActions[s])]>>

\* C28 (as stated): every activity carries the status the stage has when it
\* is emitted: one with status completed or failed is emitted only once the
\* stage has that status, and one emitted while the stage is running carries
\* status running.
C28_ActivityCarriesStageStatus ==
  \A s \in Registered :
    LET log == LoggedThisCall(agents[s])
    IN \A i \in 1..Len(log) :
         IF EmittedWhileRunning(agents[s], log[i])
         THEN log[i].status = "RUNNING"
         ELSE log[i].status = agents[s].status /\ agents[s].status \in Terminal

\* C28 (amended): an activity carries the status of the action it reports:
\* one with status failed is emitted only once analyze has raised and the
\* stage is failed; one with status completed is emitted either once analyze
\* has returned and the stage is completed, or by analyze as its last
\* emission, while the stage is still running; every other activity emitted
\* while the stage is running carries status running.
C28_ActivityCarriesActionStatus ==
  \A s \in Registered :
    LET log == LoggedThisCall(agents[s])
    IN \A i \in 1..Len(log) :
         IF EmittedWhileRunning(agents[s], log[i])
         THEN log[i].status =
                IF log[i].action = LastAnalyzeAction(s) THEN "COMPLETED" ELSE "RUNNING"
         ELSE log[i].status = agents[s].status /\ agents[s].status \in Terminal

\* a completed stage whose log holds a completed activity from the time it
\* was running, and the one execute added afterwards
C28_Witness ==
  /\ pc = "returned"
  /\ op = "execute"
  /\ agents[cur].status = "COMPLETED"
  /\ LET log == LoggedThisCall(agents[cur])
     IN /\ \E i \in 1..Len(log) :
             log[i].status = "COMPLETED" /\ log[i].timestamp <= agents[cur].end_time
        /\ \E i \in 1..Len(log) :
             log[i].status = "COMPLETED" /\ log[i].timestamp > agents[cur].end_time

\* the activities of a log, each taken once
Emitted(acts) == {acts[i] : i \in 1..Len(acts)}

\* C29: after any sequence of analyze, run_single_agent and reset calls the
\* orchestrator's aggregate activity log holds each emitted activity at most
\* once, and summary.total_activities of a completed run is the number of
\* different activities of the log
C29_ActivitiesCollectedOnce ==
  /\ \A i, j \in 1..Len(oactivities) :
       oactivities[i] = oactivities[j] => i = j
  /\ (pc = "returned" /\ ret.kind = "aggregate" /\ ret.status = "completed")
       => ret.summary.total_activities = Cardinality(Emitted(oactivities))

\* the entries a call set(key, value) removes: the keys stored before it and
\* not after it
Evicted == stored_keys(cache_manager.cache) \ stored_keys(cache_manager'.cache)

\* C30: with max_size at least 1, set(key, value) removes an entry other
\* than key only when the cache already holds max_size entries and key is not
\* among them (so updating a stored key evicts no other entry), and the
\* number of stored entries never exceeds max_size
C30_SetEvictsOnlyForNewKeyWhenFull ==
  /\ [](cache_manager.max_size >= 1
          => Len(cache_manager.cache) <= cache_manager.max_size)
  /\ [][\A key \in CacheKeys, value \in CacheValues :
          (CacheSet(key, value) /\ Evicted \ {key} # {})
            => /\ Len(cache_manager.cache) = cache_manager.max_size
               /\ key \notin stored_keys(cache_manager.cache)]_vars

=============================================================================
